---------------------------- MODULE Spec2Model ----------------------------
(***************************************************************************)
(* Control core of the pulputin irrigation / frost-protection controller.  *)
(*                                                                         *)
(* Two firmware images of the repository are modelled:                     *)
(*   fw = "ino"  : src/pulputin.ino, third sketch (lines 294-989), the     *)
(*                 pump + heater controller;                               *)
(*   fw = "main" : src/src/main.cpp, first program (lines 1-406), the      *)
(*                 pump-only controller.  Its definitions carry the        *)
(*                 prefix mc_.                                             *)
(*                                                                         *)
(* A machine value (parameter m) is a record holding every global of the   *)
(* sketch that the control core reads or writes, the two output pins and   *)
(* the EEPROM contents (field ee, one byte per address).  Every procedure  *)
(* of the sketch is an operator from machine to machine; one action is one *)
(* call of loop() or one power cycle followed by setup().                  *)
(*                                                                         *)
(* uint64_t values are represented by the integer v with |v| < 2^31 that   *)
(* is congruent to them modulo 2^64: a negative v stands for 2^64 + v, a   *)
(* value that wrapped around.  Sums and differences are then the integer   *)
(* ones; unsigned comparisons are GT64 / LT64.                             *)
(***************************************************************************)
EXTENDS Integers, Sequences, FiniteSets, TLC

VARIABLES
    fw,       \* which firmware image runs: "ino" or "main"
    M,        \* the machine: globals, output pins, EEPROM
    millis,   \* the MCU tick counter, ms since the last boot
    rtc,      \* true time, ms since EPOCH_OFFSET; the RTC chip reports its seconds
    probe,    \* what the temperature probe answers now
    obs,      \* what the last step did (observations the properties are stated on)
    cycles    \* number of steps taken

vars == <<fw, M, millis, rtc, probe, obs, cycles>>

----------------------------------------------------------------------------
(* Program constants                                                        *)

N_SLOTS == 24
EEPROM_PUMP_STATISTICS == 0
EEPROM_CONFIGURED == 48
EEPROM_PUMP_TOTAL == 49
EEPROM_PUMP_STARTED == 59
EEPROM_IDLE_STARTED == 67
EEPROM_LAST_WET == 75
EEPROM_STATS_CUR_DAY == 83
EEPROM_DISPLAY_MODE == 84
EEPROM_HEATER_STARTED == 85
EEPROM_HEAT_STATISTICS == 93
EEPROM_LAST == 188
EEPROM_CHECKVALUE == 170
EPOCH_OFFSET == 1694490000

PUMP_WATER_SPEED == 106
ONE_SECOND == 1000
ONE_HOUR == 3600000
ONE_MINUTE == ONE_HOUR \div 60
FIFTEEN_MINUTES == ONE_MINUTE * 15
TEMP_LIMIT == 5
TEMP_ALARM_LOW == 3
HEATER_POWER == 50
TARGET_POWER == 5
HEATER_ON_TIME == 5 * ONE_SECOND
HEATER_IDLE_TIME == (HEATER_POWER * HEATER_ON_TIME) \div TARGET_POWER - HEATER_ON_TIME
CONTAINER_SIZE == 28000
PUMP_PORTION == 100
PERIOD_TIME == 15 * ONE_MINUTE
WET_TIME == ONE_HOUR
DRY_TOO_LONG_TIME == ONE_HOUR * 48
FORCE_STOP_TIME == ONE_HOUR
MOTION_STOP_TIME == ONE_MINUTE * 15
DEVICE_DISCONNECTED_C == -127
TEMP_READ_PERIOD == 10000

\* main.cpp
mc_EEPROM_LAST_HOUR_STARTED == 51
mc_PUMP_WATER_SPEED == 116

----------------------------------------------------------------------------
(* Fixed-width integers                                                     *)

W8 == 2^8
W16 == 2^16
W24 == 2^24

\* unsigned 64-bit comparisons of a represented value x with a constant c >= 0
GT64(x, c) == x < 0 \/ x > c
LT64(x, c) == x >= 0 /\ x < c

\* floor(2^64 / 100000) modulo 2^16, and 2^64 modulo 100000
Q64_MOD16 == 6983
R64 == 51616

\* milliseconds * speed / 100000 in uint64_t.  For ms >= 0 this is the exact
\* quotient, computed from the two halves of ms so that the product stays in
\* range.  For a wrapped ms (negative representative) the product is
\* 2^64 + ms*speed and only the low 16 bits of the quotient are given: every
\* use adds the result into a uint16_t.
MsToMlWith(ms, speed) ==
    IF ms >= 0
    THEN (ms \div 100000) * speed + ((ms % 100000) * speed) \div 100000
    ELSE (Q64_MOD16 + ((R64 + ms * speed) \div 100000)) % W16

mlToMsWith(ml, speed) == (100000 * ml) \div speed

mlToMs(millilitres) == mlToMsWith(millilitres, PUMP_WATER_SPEED)
msToMl(milliseconds) == MsToMlWith(milliseconds, PUMP_WATER_SPEED)

PUMP_TIME == mlToMs(PUMP_PORTION)
IDLE_TIME == PERIOD_TIME - PUMP_TIME

mc_mlToMs(millilitres) == mlToMsWith(millilitres, mc_PUMP_WATER_SPEED)
mc_msToMl(milliseconds) == MsToMlWith(milliseconds, mc_PUMP_WATER_SPEED)
mc_PUMP_TIME == mc_mlToMs(PUMP_PORTION)
mc_IDLE_TIME == PERIOD_TIME - mc_PUMP_TIME

----------------------------------------------------------------------------
(* The EEPROM: one byte per address, little-endian multi-byte values        *)

EeAddrs == 0 .. EEPROM_LAST

\* byte k (0 = least significant) of the w-byte two's-complement image of v
ByteOf(v, k) ==
    CASE k = 0 -> v % W8
      [] k = 1 -> (v \div W8) % W8
      [] k = 2 -> (v \div W16) % W8
      [] k = 3 -> (v \div W24) % W8
      [] OTHER -> IF v < 0 THEN 255 ELSE 0

\* the eeprom_update_* calls write the value's bytes from address a on
eeprom_update_byte(ee, a, v) == [ee EXCEPT ![a] = v % W8]
eeprom_update_word(ee, a, v) ==
    [ee EXCEPT ![a] = ByteOf(v, 0), ![a + 1] = ByteOf(v, 1)]
eeprom_update_dword(ee, a, v) ==
    [ee EXCEPT ![a] = ByteOf(v, 0), ![a + 1] = ByteOf(v, 1),
               ![a + 2] = ByteOf(v, 2), ![a + 3] = ByteOf(v, 3)]
eeprom_update_block8(ee, a, v) ==
    [ee EXCEPT ![a] = ByteOf(v, 0), ![a + 1] = ByteOf(v, 1),
               ![a + 2] = ByteOf(v, 2), ![a + 3] = ByteOf(v, 3),
               ![a + 4] = ByteOf(v, 4), ![a + 5] = ByteOf(v, 5),
               ![a + 6] = ByteOf(v, 6), ![a + 7] = ByteOf(v, 7)]

eeprom_read_byte(ee, a) == ee[a]
eeprom_read_word(ee, a) == ee[a] + W8 * ee[a + 1]

\* low four bytes read as a value of the represented range: a top byte >= 128
\* is a value that does not fit 31 bits and is read as its negative congruent
Low32(ee, a) ==
    ee[a] + W8 * ee[a + 1] + W16 * ee[a + 2]
      + W24 * (IF ee[a + 3] >= 128 THEN ee[a + 3] - W8 ELSE ee[a + 3])

eeprom_read_dword(ee, a) == Low32(ee, a)
eeprom_read_block8(ee, a) == Low32(ee, a)

\* does the 8-byte block at a hold a value the representation covers
Block8InRange(ee, a) ==
    \/ ee[a + 3] < 128 /\ \A k \in 4 .. 7 : ee[a + k] = 0
    \/ ee[a + 3] >= 128 /\ \A k \in 4 .. 7 : ee[a + k] = 255

InR(a, base, len) == a >= base /\ a < base + len

\* Op applied to the value of v.  (One statement after another: v is evaluated
\* once, before Op's body.)
Then(v, Op(_)) == CHOOSE r \in {Op(x) : x \in {v}} : TRUE

----------------------------------------------------------------------------
(* Calendar day of a unix time (DateTime::day() of the RTC library)         *)

DayOfMonth(unix) ==
    LET z   == unix \div 86400 + 719468
        era == z \div 146097
        doe == z - era * 146097
        yoe == (doe - doe \div 1460 + doe \div 36524 - doe \div 146096) \div 365
        doy == doe - (365 * yoe + yoe \div 4 - yoe \div 100)
        mp  == (5 * doy + 2) \div 153
    IN  doy - (153 * mp + 2) \div 5 + 1

----------------------------------------------------------------------------
(* pulputin.ino: globals and persistence                                    *)

Zeros == [i \in 1 .. N_SLOTS |-> 0]

\* the globals as their initializers leave them, and the pins before pinMode.
\* ckpt is history, not a global: the persisted globals as the last call of
\* saveEeprom saw them.
Globals ==
    [ waterLevel |-> FALSE, maxWaterLevel |-> FALSE, motionSns |-> FALSE,
      alarmRunning |-> FALSE,
      pumpStatistics |-> Zeros, pumpedTotal |-> 0, heatStatistics |-> Zeros,
      epochAtStart |-> 0, timeNow |-> 0, dateTimeNow |-> 0,
      lastTimeClockCorrected |-> 0, tempLastRead |-> 0,
      pumpStartedMs |-> 0, idleStartedMs |-> 0, lastWetMs |-> 0,
      forceStopStartedMs |-> 0, motionStopStartedMs |-> 0,
      statisticsCurrentDay |-> 0, displayMode |-> 0,
      wasMotionStopped |-> FALSE, wasForceStopped |-> FALSE, wasWet |-> FALSE,
      pumpRunning |-> FALSE,
      heaterStartedMs |-> 0, heaterIdleStartedMs |-> 0, heaterRunning |-> FALSE,
      temperature |-> TEMP_LIMIT + 1, tempSensorFail |-> FALSE,
      showBootInfo |-> TRUE,
      forceStopPressed |-> FALSE, resetButtonPressed |-> FALSE,
      resetContainerPressed |-> FALSE, forceRunPressed |-> FALSE,
      modeChangePressed |-> FALSE,
      lastHourStarted |-> 0,
      OUT_PUMP_PIN |-> FALSE, OUT_HEATER_PIN |-> FALSE,
      ee |-> [a \in EeAddrs |-> 255],
      ckpt |-> << >> ]

\* the loop of lines 501-504, from slot i (0-based) on
RECURSIVE saveStatistics(_, _, _)
saveStatistics(ee, m, i) ==
    IF i >= N_SLOTS THEN ee
    ELSE saveStatistics(
            eeprom_update_dword(
                eeprom_update_word(ee, EEPROM_PUMP_STATISTICS + i * 2,
                                   m.pumpStatistics[i + 1]),
                EEPROM_HEAT_STATISTICS + i * 4, m.heatStatistics[i + 1]),
            m, i + 1)

\* saveEeprom() without the write of statisticsCurrentDay
saveEepromBytes_markerless(m) ==
    eeprom_update_byte(
    eeprom_update_block8(
    eeprom_update_block8(
    eeprom_update_block8(
    eeprom_update_block8(
    eeprom_update_word(
        saveStatistics(m.ee, m, 0),
        EEPROM_PUMP_TOTAL, m.pumpedTotal),
        EEPROM_PUMP_STARTED, m.pumpStartedMs),
        EEPROM_IDLE_STARTED, m.idleStartedMs),
        EEPROM_HEATER_STARTED, m.heaterStartedMs),
        EEPROM_LAST_WET, m.lastWetMs),
        EEPROM_DISPLAY_MODE, m.displayMode)

\* the bytes saveEeprom leaves in the EEPROM, write after write
saveEepromBytes(m) ==
    eeprom_update_byte(
    eeprom_update_byte(
    eeprom_update_block8(
    eeprom_update_block8(
    eeprom_update_block8(
    eeprom_update_block8(
    eeprom_update_word(
        saveStatistics(m.ee, m, 0),
        EEPROM_PUMP_TOTAL, m.pumpedTotal),
        EEPROM_PUMP_STARTED, m.pumpStartedMs),
        EEPROM_IDLE_STARTED, m.idleStartedMs),
        EEPROM_HEATER_STARTED, m.heaterStartedMs),
        EEPROM_LAST_WET, m.lastWetMs),
        EEPROM_STATS_CUR_DAY, m.statisticsCurrentDay),
        EEPROM_DISPLAY_MODE, m.displayMode)

\* the globals saveEeprom writes
Persisted(m) ==
    [pumpStatistics |-> m.pumpStatistics, heatStatistics |-> m.heatStatistics,
     pumpedTotal |-> m.pumpedTotal, pumpStartedMs |-> m.pumpStartedMs,
     idleStartedMs |-> m.idleStartedMs, heaterStartedMs |-> m.heaterStartedMs,
     lastWetMs |-> m.lastWetMs, statisticsCurrentDay |-> m.statisticsCurrentDay,
     displayMode |-> m.displayMode]

saveEeprom(m) ==
    Then(m, LAMBDA x : [x EXCEPT !.ee = saveEepromBytes(x), !.ckpt = Persisted(x)])

\* resetEEPROM() without its closing saveEeprom()
resetEEPROM_unsaved(m) ==
    [m EXCEPT !.pumpStatistics = Zeros,
              !.heatStatistics = Zeros,
              !.pumpedTotal = 0,
              !.pumpStartedMs = m.timeNow,
              !.idleStartedMs = m.timeNow,
              !.lastWetMs = 0,
              !.forceStopStartedMs = 0,
              !.statisticsCurrentDay = DayOfMonth(m.dateTimeNow),
              !.ee = [m.ee EXCEPT ![EEPROM_CONFIGURED] = EEPROM_CHECKVALUE]]

resetEEPROM(m) ==
    LET r == [m EXCEPT !.pumpStatistics = Zeros,
                       !.heatStatistics = Zeros,
                       !.pumpedTotal = 0,
                       !.pumpStartedMs = m.timeNow,
                       !.idleStartedMs = m.timeNow,
                       !.lastWetMs = 0,
                       !.forceStopStartedMs = 0,
                       !.statisticsCurrentDay = DayOfMonth(m.dateTimeNow),
                       !.ee = [m.ee EXCEPT ![EEPROM_CONFIGURED] = EEPROM_CHECKVALUE]]
    IN  saveEeprom(r)

\* readEeprom() without the read of heaterStartedMs
readEeprom_heaterless(m) ==
    Then(IF eeprom_read_byte(m.ee, EEPROM_CONFIGURED) # EEPROM_CHECKVALUE
         THEN resetEEPROM(m) ELSE m,
         LAMBDA r :
        [r EXCEPT
           !.pumpStatistics =
               [i \in 1 .. N_SLOTS |->
                  eeprom_read_word(r.ee, EEPROM_PUMP_STATISTICS + (i - 1) * 2)],
           !.heatStatistics =
               [i \in 1 .. N_SLOTS |->
                  eeprom_read_dword(r.ee, EEPROM_HEAT_STATISTICS + (i - 1) * 4)],
           !.pumpedTotal = eeprom_read_word(r.ee, EEPROM_PUMP_TOTAL),
           !.pumpStartedMs = eeprom_read_block8(r.ee, EEPROM_PUMP_STARTED),
           !.idleStartedMs = eeprom_read_block8(r.ee, EEPROM_IDLE_STARTED),
           !.lastWetMs = eeprom_read_block8(r.ee, EEPROM_LAST_WET),
           !.statisticsCurrentDay = eeprom_read_byte(r.ee, EEPROM_STATS_CUR_DAY),
           !.displayMode = eeprom_read_byte(r.ee, EEPROM_DISPLAY_MODE)])

\* readEeprom() taking the sentinel-mismatch branch whatever the sentinel is
readEeprom_resetting(m) ==
    Then(resetEEPROM(m),
         LAMBDA r :
        [r EXCEPT
           !.pumpStatistics =
               [i \in 1 .. N_SLOTS |->
                  eeprom_read_word(r.ee, EEPROM_PUMP_STATISTICS + (i - 1) * 2)],
           !.heatStatistics =
               [i \in 1 .. N_SLOTS |->
                  eeprom_read_dword(r.ee, EEPROM_HEAT_STATISTICS + (i - 1) * 4)],
           !.pumpedTotal = eeprom_read_word(r.ee, EEPROM_PUMP_TOTAL),
           !.pumpStartedMs = eeprom_read_block8(r.ee, EEPROM_PUMP_STARTED),
           !.idleStartedMs = eeprom_read_block8(r.ee, EEPROM_IDLE_STARTED),
           !.heaterStartedMs = eeprom_read_block8(r.ee, EEPROM_HEATER_STARTED),
           !.lastWetMs = eeprom_read_block8(r.ee, EEPROM_LAST_WET),
           !.statisticsCurrentDay = eeprom_read_byte(r.ee, EEPROM_STATS_CUR_DAY),
           !.displayMode = eeprom_read_byte(r.ee, EEPROM_DISPLAY_MODE)])

readEeprom(m) ==
    Then(IF eeprom_read_byte(m.ee, EEPROM_CONFIGURED) # EEPROM_CHECKVALUE
         THEN resetEEPROM(m) ELSE m,
         LAMBDA r :
        [r EXCEPT
           !.pumpStatistics =
               [i \in 1 .. N_SLOTS |->
                  eeprom_read_word(r.ee, EEPROM_PUMP_STATISTICS + (i - 1) * 2)],
           !.heatStatistics =
               [i \in 1 .. N_SLOTS |->
                  eeprom_read_dword(r.ee, EEPROM_HEAT_STATISTICS + (i - 1) * 4)],
           !.pumpedTotal = eeprom_read_word(r.ee, EEPROM_PUMP_TOTAL),
           !.pumpStartedMs = eeprom_read_block8(r.ee, EEPROM_PUMP_STARTED),
           !.idleStartedMs = eeprom_read_block8(r.ee, EEPROM_IDLE_STARTED),
           !.heaterStartedMs = eeprom_read_block8(r.ee, EEPROM_HEATER_STARTED),
           !.lastWetMs = eeprom_read_block8(r.ee, EEPROM_LAST_WET),
           !.statisticsCurrentDay = eeprom_read_byte(r.ee, EEPROM_STATS_CUR_DAY),
           !.displayMode = eeprom_read_byte(r.ee, EEPROM_DISPLAY_MODE)])

\* dayPassed() without the clearing of slot 0
dayPassed_keeping(m) ==
    [m EXCEPT
       !.pumpStatistics =
           [i \in 1 .. N_SLOTS |-> IF i = 1 THEN m.pumpStatistics[1]
                                   ELSE m.pumpStatistics[i - 1]],
       !.heatStatistics =
           [i \in 1 .. N_SLOTS |-> IF i = 1 THEN m.heatStatistics[1]
                                   ELSE m.heatStatistics[i - 1]]]

dayPassed(m) ==
    [m EXCEPT
       !.pumpStatistics =
           [i \in 1 .. N_SLOTS |-> IF i = 1 THEN 0 ELSE m.pumpStatistics[i - 1]],
       !.heatStatistics =
           [i \in 1 .. N_SLOTS |-> IF i = 1 THEN 0 ELSE m.heatStatistics[i - 1]]]

----------------------------------------------------------------------------
(* pulputin.ino: actuators and guards                                       *)

updateBuiltinLed(m) == m

startHeat(m) ==
    [m EXCEPT !.heaterRunning = TRUE,
              !.heaterStartedMs = m.timeNow,
              !.OUT_HEATER_PIN = TRUE]

\* stopHeat() if it left the output as it was
stopHeat_pinless(m) ==
    LET heaterTime == m.timeNow - m.heaterStartedMs
    IN  saveEeprom([m EXCEPT !.heaterRunning = FALSE,
                             !.heaterIdleStartedMs = m.timeNow,
                             !.heatStatistics[1] = @ + heaterTime])

stopHeat(m) ==
    LET heaterTime == m.timeNow - m.heaterStartedMs
    IN  saveEeprom([m EXCEPT !.heaterRunning = FALSE,
                             !.OUT_HEATER_PIN = FALSE,
                             !.heaterIdleStartedMs = m.timeNow,
                             !.heatStatistics[1] = @ + heaterTime])

resetMaxWaterLevel(m) == [m EXCEPT !.maxWaterLevel = m.waterLevel]

updateMaxWaterLevel(m) ==
    IF m.waterLevel THEN [m EXCEPT !.maxWaterLevel = TRUE] ELSE m

startPump(m) ==
    saveEeprom(resetMaxWaterLevel(
        [m EXCEPT !.pumpRunning = TRUE,
                  !.pumpStartedMs = m.timeNow,
                  !.OUT_PUMP_PIN = TRUE]))

stopPump(m) ==
    LET pumped == msToMl(m.timeNow - m.pumpStartedMs)
    IN  saveEeprom([m EXCEPT !.pumpRunning = FALSE,
                             !.OUT_PUMP_PIN = FALSE,
                             !.pumpStatistics[1] = (@ + pumped) % W16,
                             !.pumpedTotal = (@ + pumped) % W16,
                             !.idleStartedMs = m.timeNow])

stopPumpTimePassed(m) == GT64(m.timeNow - m.pumpStartedMs, PUMP_TIME)
idleTimePassed(m) == GT64(m.timeNow - m.idleStartedMs, IDLE_TIME)
wetRecently(m) == m.wasWet /\ LT64(m.timeNow - m.lastWetMs, WET_TIME)
dryTooLong(m) == GT64(m.timeNow - m.lastWetMs, DRY_TOO_LONG_TIME)
forceStoppedRecently(m) ==
    m.wasForceStopped /\ LT64(m.timeNow - m.forceStopStartedMs, FORCE_STOP_TIME)
motionStoppedRecently(m) ==
    m.wasMotionStopped /\ LT64(m.timeNow - m.motionStopStartedMs, MOTION_STOP_TIME)
stopHeaterTimePassed(m) == GT64(m.timeNow - m.heaterStartedMs, HEATER_ON_TIME)
heaterIdleTimePassed(m) == GT64(m.timeNow - m.heaterIdleStartedMs, HEATER_IDLE_TIME)
isTriggerTemp(m) == m.temperature < TEMP_LIMIT
isAlarmTemp(m) == m.temperature < TEMP_ALARM_LOW
\* isOperating() if it never reported an operation
isOperating_never(m) == FALSE
isOperating(m) == m.pumpRunning \/ m.heaterRunning
isWinter == TRUE

cantStart(m) ==
    \/ isWinter
    \/ isTriggerTemp(m)
    \/ wetRecently(m)
    \/ forceStoppedRecently(m)
    \/ motionStoppedRecently(m)

\* the head of manageWaterPump() if a set latch did not stamp lastWetMs
noteWet_unstamped(m) ==
    Then(updateMaxWaterLevel(m), LAMBDA u :
        IF u.maxWaterLevel THEN [u EXCEPT !.wasWet = TRUE] ELSE u)

\* lines 846-851
noteWet(m) ==
    Then(updateMaxWaterLevel(m), LAMBDA u :
        IF u.maxWaterLevel
        THEN [u EXCEPT !.lastWetMs = u.timeNow, !.wasWet = TRUE]
        ELSE u)

manageWaterPump(m) ==
    Then(noteWet(m), LAMBDA w :
        IF w.pumpRunning
        THEN IF stopPumpTimePassed(w) \/ cantStart(w) THEN stopPump(w) ELSE w
        ELSE IF idleTimePassed(w)
             THEN IF ~w.maxWaterLevel /\ ~cantStart(w)
                  THEN startPump(w)
                  ELSE [resetMaxWaterLevel(w) EXCEPT !.idleStartedMs = w.timeNow]
             ELSE w)

\* manageHeater() if its start waited for cantStart() to be false
manageHeater_inhibited(m) ==
    IF m.heaterRunning
    THEN IF stopHeaterTimePassed(m) THEN stopHeat(m) ELSE m
    ELSE IF heaterIdleTimePassed(m) /\ isTriggerTemp(m) /\ ~cantStart(m)
         THEN startHeat(m) ELSE m

\* manageHeater() if cantStart() interrupted the heater as it does the pump
manageHeater_interruptible(m) ==
    IF m.heaterRunning
    THEN IF stopHeaterTimePassed(m) \/ cantStart(m) THEN stopHeat(m) ELSE m
    ELSE IF heaterIdleTimePassed(m) /\ isTriggerTemp(m) THEN startHeat(m) ELSE m

manageHeater(m) ==
    IF m.heaterRunning
    THEN IF stopHeaterTimePassed(m) THEN stopHeat(m) ELSE m
    ELSE IF heaterIdleTimePassed(m) /\ isTriggerTemp(m) THEN startHeat(m) ELSE m

manageAlarm(m) ==
    [m EXCEPT !.alarmRunning =
        \/ ~isWinter /\ dryTooLong(m)
        \/ m.showBootInfo
        \/ m.tempSensorFail
        \/ isAlarmTemp(m)
        \/ ~isWinter /\ CONTAINER_SIZE - m.pumpedTotal < 7500
                     /\ ~forceStoppedRecently(m)]

----------------------------------------------------------------------------
(* pulputin.ino: commands and sensors.  in is what the pins read this cycle *)

\* line 701-704
inButton1(m, in) == IF in.button1 THEN [m EXCEPT !.showBootInfo = FALSE] ELSE m

\* lines 706-714
inModeChange(m, in) ==
    [(IF in.modeChangeBtn # m.modeChangePressed /\ in.modeChangeBtn
      THEN saveEeprom([m EXCEPT !.displayMode = (m.displayMode + 1) % 3])
      ELSE m)
     EXCEPT !.modeChangePressed = in.modeChangeBtn]

\* lines 715-731
\* the ForceRun handling if a release left the outputs as they were
inForceRun_sticky(m, in) ==
    [(IF in.forceRunBtn # m.forceRunPressed /\ in.forceRunBtn
      THEN IF isWinter
           THEN [m EXCEPT !.OUT_HEATER_PIN = TRUE]
           ELSE [m EXCEPT !.OUT_PUMP_PIN = TRUE]
      ELSE m)
     EXCEPT !.forceRunPressed = in.forceRunBtn]

inForceRun(m, in) ==
    [(IF in.forceRunBtn # m.forceRunPressed
      THEN IF in.forceRunBtn
           THEN IF isWinter
                THEN [m EXCEPT !.OUT_HEATER_PIN = TRUE]
                ELSE [m EXCEPT !.OUT_PUMP_PIN = TRUE]
           ELSE [m EXCEPT !.OUT_HEATER_PIN = m.heaterRunning,
                          !.OUT_PUMP_PIN = m.pumpRunning]
      ELSE m)
     EXCEPT !.forceRunPressed = in.forceRunBtn]

\* the container button if it ran resetEEPROM() as the reset button does
inContainer_resetting(m, in) ==
    [(IF in.containerBtn # m.resetContainerPressed /\ in.containerBtn
      THEN readEeprom(resetEEPROM(m))
      ELSE m)
     EXCEPT !.resetContainerPressed = in.containerBtn]

\* lines 733-739
inContainer(m, in) ==
    [(IF in.containerBtn # m.resetContainerPressed /\ in.containerBtn
      THEN saveEeprom([m EXCEPT !.pumpedTotal = 0])
      ELSE m)
     EXCEPT !.resetContainerPressed = in.containerBtn]

\* lines 741-746
inReset(m, in) ==
    [(IF in.resetBtn # m.resetButtonPressed /\ in.resetBtn
      THEN readEeprom(resetEEPROM(m))
      ELSE m)
     EXCEPT !.resetButtonPressed = in.resetBtn]

\* lines 758-763
\* the ForceStop handling if the edge also restarted the pump's idle period
inForceStop_restarting(m, in) ==
    [(IF in.forceBtn # m.forceStopPressed /\ in.forceBtn
      THEN [m EXCEPT !.forceStopStartedMs = m.timeNow, !.wasForceStopped = TRUE,
                     !.idleStartedMs = m.timeNow]
      ELSE m)
     EXCEPT !.forceStopPressed = in.forceBtn]

inForceStop(m, in) ==
    [(IF in.forceBtn # m.forceStopPressed /\ in.forceBtn
      THEN [m EXCEPT !.forceStopStartedMs = m.timeNow, !.wasForceStopped = TRUE]
      ELSE m)
     EXCEPT !.forceStopPressed = in.forceBtn]

\* lines 764-771
inSensors(m, in) ==
    [(IF in.motion
      THEN [m EXCEPT !.motionStopStartedMs = m.timeNow, !.wasMotionStopped = TRUE]
      ELSE m)
     EXCEPT !.motionSns = in.motion, !.waterLevel = in.water]

readInput(m, in) ==
    Then(Then(Then(Then(Then(Then(Then(m,
        LAMBDA x : inButton1(x, in)),
        LAMBDA x : inModeChange(x, in)),
        LAMBDA x : inForceRun(x, in)),
        LAMBDA x : inContainer(x, in)),
        LAMBDA x : inReset(x, in)),
        LAMBDA x : inForceStop(x, in)),
        LAMBDA x : inSensors(x, in))

----------------------------------------------------------------------------
(* pulputin.ino: setup() and the stages of loop()                           *)

initializePins(m) == [m EXCEPT !.OUT_PUMP_PIN = FALSE, !.OUT_HEATER_PIN = FALSE]

\* ee: what the EEPROM holds at power-up; rtcUnix: rtc.now().unixtime()
setup(ee, ckpt, rtcUnix) ==
    readEeprom(initializePins(
        [Globals EXCEPT !.ee = ee, !.ckpt = ckpt,
                        !.dateTimeNow = rtcUnix,
                        !.epochAtStart = (rtcUnix - EPOCH_OFFSET) * 1000]))

\* lines 935-936
loopClock(m, myMillis) ==
    LET t == m.epochAtStart + myMillis
    IN  [m EXCEPT !.timeNow = t, !.dateTimeNow = (t \div 1000) + EPOCH_OFFSET]

rolloverDue(m) == DayOfMonth(m.dateTimeNow) # m.statisticsCurrentDay

\* lines 938-942
loopRollover(m) ==
    IF rolloverDue(m)
    THEN saveEeprom([dayPassed(m) EXCEPT
                        !.statisticsCurrentDay = DayOfMonth(m.dateTimeNow)])
    ELSE m

correctionDue(m) ==
    GT64(m.timeNow - m.lastTimeClockCorrected, FIFTEEN_MINUTES) /\ ~isOperating(m)

\* lines 946-952
loopCorrection(m, myMillis, rtcUnix) ==
    IF correctionDue(m)
    THEN LET correction == rtcUnix - m.dateTimeNow
             e == m.epochAtStart + correction * 1000
         IN  saveEeprom([m EXCEPT !.epochAtStart = e,
                                  !.timeNow = e + myMillis,
                                  !.lastTimeClockCorrected = e + myMillis])
    ELSE m

tempReadDue(m) == GT64(m.timeNow - m.tempLastRead, TEMP_READ_PERIOD)

\* lines 953-964 if a failed reading were stored as it came
loopTemperature_raw(m, temp) ==
    IF tempReadDue(m)
    THEN [m EXCEPT !.temperature = temp,
                   !.tempSensorFail = (temp = DEVICE_DISCONNECTED_C),
                   !.tempLastRead = m.timeNow]
    ELSE m

\* lines 953-964; temp is what sensors.getTempCByIndex(0) returns
loopTemperature(m, temp) ==
    IF tempReadDue(m)
    THEN IF temp # DEVICE_DISCONNECTED_C
         THEN [m EXCEPT !.temperature = temp, !.tempSensorFail = FALSE,
                        !.tempLastRead = m.timeNow]
         ELSE [m EXCEPT !.temperature = TEMP_LIMIT + 1, !.tempSensorFail = TRUE,
                        !.tempLastRead = m.timeNow]
    ELSE m

\* the machine on entry to readInput, to manageWaterPump, to manageHeater, and
\* at the end of loop()
loopStages(m, myMillis, rtcUnix, in) ==
    Then(loopClock(m, myMillis), LAMBDA s1 :
    Then(loopRollover(s1), LAMBDA s2 :
    Then(loopCorrection(s2, myMillis, rtcUnix), LAMBDA s3 :
    Then(loopTemperature(s3, in.probe), LAMBDA s4 :
    Then(readInput(s4, in), LAMBDA s5 :
    Then(manageWaterPump(s5), LAMBDA s6 :
    Then(manageHeater(s6), LAMBDA s7 :
        [clock |-> s1, rolled |-> s2, corrected |-> s3, sensed |-> s4,
         input |-> s5, pump |-> s6, heater |-> s7, end |-> manageAlarm(s7)])))))))

----------------------------------------------------------------------------
(* main.cpp: the pump-only controller                                       *)

\* the loop of lines 136-138, from slot i (0-based) on
RECURSIVE mc_saveStatistics(_, _, _)
mc_saveStatistics(ee, m, i) ==
    IF i >= N_SLOTS THEN ee
    ELSE mc_saveStatistics(
            eeprom_update_word(ee, EEPROM_PUMP_STATISTICS + i * 2,
                               m.pumpStatistics[i + 1]),
            m, i + 1)

\* saveEeprom of main.cpp.  Its four eeprom_update_block calls pass
\* &EEPROM_LAST_HOUR_STARTED, &EEPROM_PUMP_STARTED, &EEPROM_IDLE_STARTED and
\* &EEPROM_LAST_WET as the destination: the SRAM addresses of the pointer
\* variables (0x200 and up on the ATmega2560), not the EEPROM offsets 51..82
\* they hold.  Those writes land beyond EEPROM_LAST and change no byte of the
\* record.
mc_saveEepromBytes(m) ==
    eeprom_update_byte(
    eeprom_update_word(
        mc_saveStatistics(m.ee, m, 0),
        EEPROM_PUMP_TOTAL, m.pumpedTotal),
        EEPROM_STATS_CUR_DAY, m.statisticsCurrentDay)

\* the globals saveEeprom of main.cpp passes to the eeprom_update_* calls
mc_Persisted(m) ==
    [pumpStatistics |-> m.pumpStatistics, pumpedTotal |-> m.pumpedTotal,
     lastHourStarted |-> m.lastHourStarted, pumpStartedMs |-> m.pumpStartedMs,
     idleStartedMs |-> m.idleStartedMs, lastWetMs |-> m.lastWetMs,
     statisticsCurrentDay |-> m.statisticsCurrentDay]

mc_saveEeprom(m) ==
    Then(m, LAMBDA x : [x EXCEPT !.ee = mc_saveEepromBytes(x),
                                 !.ckpt = mc_Persisted(x)])

mc_resetEEPROM(m) ==
    LET r == [m EXCEPT !.pumpStatistics = Zeros,
                       !.pumpedTotal = 0,
                       !.lastHourStarted = m.timeNow,
                       !.pumpStartedMs = m.timeNow,
                       !.idleStartedMs = m.timeNow,
                       !.lastWetMs = 0,
                       !.forceStopStartedMs = 0,
                       !.statisticsCurrentDay = DayOfMonth(m.dateTimeNow),
                       !.ee = [m.ee EXCEPT ![EEPROM_CONFIGURED] = EEPROM_CHECKVALUE]]
    IN  mc_saveEeprom(r)

mc_readEeprom(m) ==
    Then(IF eeprom_read_byte(m.ee, EEPROM_CONFIGURED) # EEPROM_CHECKVALUE
         THEN mc_resetEEPROM(m) ELSE m,
         LAMBDA r :
        [r EXCEPT
           !.pumpStatistics =
               [i \in 1 .. N_SLOTS |->
                  eeprom_read_word(r.ee, EEPROM_PUMP_STATISTICS + (i - 1) * 2)],
           !.pumpedTotal = eeprom_read_word(r.ee, EEPROM_PUMP_TOTAL),
           !.lastHourStarted = eeprom_read_block8(r.ee, mc_EEPROM_LAST_HOUR_STARTED),
           !.pumpStartedMs = eeprom_read_block8(r.ee, EEPROM_PUMP_STARTED),
           !.idleStartedMs = eeprom_read_block8(r.ee, EEPROM_IDLE_STARTED),
           !.lastWetMs = eeprom_read_block8(r.ee, EEPROM_LAST_WET),
           !.statisticsCurrentDay = eeprom_read_byte(r.ee, EEPROM_STATS_CUR_DAY)])

mc_dayPassed(m) ==
    [m EXCEPT
       !.pumpStatistics =
           [i \in 1 .. N_SLOTS |-> IF i = 1 THEN 0 ELSE m.pumpStatistics[i - 1]]]

\* cantStart() of main.cpp without the motion cooldown
mc_cantStart_motionless(m) ==
    wetRecently(m) \/ forceStoppedRecently(m)

mc_cantStart(m) ==
    wetRecently(m) \/ forceStoppedRecently(m) \/ motionStoppedRecently(m)

mc_startPump(m) ==
    mc_saveEeprom(resetMaxWaterLevel(
        [m EXCEPT !.pumpRunning = TRUE,
                  !.pumpStartedMs = m.timeNow,
                  !.OUT_PUMP_PIN = TRUE]))

\* stopPump() of main.cpp if it booked the configured portion whatever the
\* on-time was
mc_stopPump_portion(m) ==
    mc_saveEeprom([m EXCEPT !.pumpRunning = FALSE,
                            !.OUT_PUMP_PIN = FALSE,
                            !.pumpStatistics[1] = (@ + PUMP_PORTION) % W16,
                            !.pumpedTotal = (@ + PUMP_PORTION) % W16,
                            !.idleStartedMs = m.timeNow])

\* stopPump() of main.cpp without the addition to pumpedTotal
mc_stopPump_untotalled(m) ==
    LET pumped == mc_msToMl(m.timeNow - m.pumpStartedMs) % W16
    IN  mc_saveEeprom([m EXCEPT !.pumpRunning = FALSE,
                                !.OUT_PUMP_PIN = FALSE,
                                !.pumpStatistics[1] = (@ + pumped) % W16,
                                !.idleStartedMs = m.timeNow])

mc_stopPump(m) ==
    LET pumped == mc_msToMl(m.timeNow - m.pumpStartedMs) % W16
    IN  mc_saveEeprom([m EXCEPT !.pumpRunning = FALSE,
                                !.OUT_PUMP_PIN = FALSE,
                                !.pumpStatistics[1] = (@ + pumped) % W16,
                                !.pumpedTotal = (@ + pumped) % W16,
                                !.idleStartedMs = m.timeNow])

mc_stopPumpTimePassed(m) == GT64(m.timeNow - m.pumpStartedMs, mc_PUMP_TIME)
mc_idleTimePassed(m) == GT64(m.timeNow - m.idleStartedMs, mc_IDLE_TIME)

\* manageWaterPump() of main.cpp if its start did not consult cantStart()
mc_manageWaterPump_uninhibited(m) ==
    Then(noteWet(m), LAMBDA w :
        IF w.pumpRunning
        THEN IF mc_stopPumpTimePassed(w) \/ mc_cantStart(w) THEN mc_stopPump(w) ELSE w
        ELSE IF mc_idleTimePassed(w)
             THEN IF ~w.maxWaterLevel
                  THEN mc_startPump(w)
                  ELSE [resetMaxWaterLevel(w) EXCEPT !.idleStartedMs = w.timeNow]
             ELSE w)

\* manageWaterPump() of main.cpp if only the pump time stopped the pump
mc_manageWaterPump_timed(m) ==
    Then(noteWet(m), LAMBDA w :
        IF w.pumpRunning
        THEN IF mc_stopPumpTimePassed(w) THEN mc_stopPump(w) ELSE w
        ELSE IF mc_idleTimePassed(w)
             THEN IF ~w.maxWaterLevel /\ ~mc_cantStart(w)
                  THEN mc_startPump(w)
                  ELSE [resetMaxWaterLevel(w) EXCEPT !.idleStartedMs = w.timeNow]
             ELSE w)

mc_manageWaterPump(m) ==
    Then(noteWet(m), LAMBDA w :
        IF w.pumpRunning
        THEN IF mc_stopPumpTimePassed(w) \/ mc_cantStart(w) THEN mc_stopPump(w) ELSE w
        ELSE IF mc_idleTimePassed(w)
             THEN IF ~w.maxWaterLevel /\ ~mc_cantStart(w)
                  THEN mc_startPump(w)
                  ELSE [resetMaxWaterLevel(w) EXCEPT !.idleStartedMs = w.timeNow]
             ELSE w)

\* lines 260-266
mc_inContainer(m, in) ==
    [(IF in.containerBtn # m.resetContainerPressed /\ in.containerBtn
      THEN mc_saveEeprom([m EXCEPT !.pumpedTotal = 0])
      ELSE m)
     EXCEPT !.resetContainerPressed = in.containerBtn]

\* the reset button of main.cpp if resetEEPROM() were not followed by
\* readEeprom()
mc_inReset_unread(m, in) ==
    [(IF in.resetBtn # m.resetButtonPressed /\ in.resetBtn
      THEN mc_resetEEPROM(m)
      ELSE m)
     EXCEPT !.resetButtonPressed = in.resetBtn]

\* lines 268-273
mc_inReset(m, in) ==
    [(IF in.resetBtn # m.resetButtonPressed /\ in.resetBtn
      THEN mc_readEeprom(mc_resetEEPROM(m))
      ELSE m)
     EXCEPT !.resetButtonPressed = in.resetBtn]

mc_readInput(m, in) ==
    Then(Then(Then(Then(m,
        LAMBDA x : mc_inContainer(x, in)),
        LAMBDA x : mc_inReset(x, in)),
        LAMBDA x : inForceStop(x, in)),
        LAMBDA x : inSensors(x, in))

mc_initializePins(m) == [m EXCEPT !.OUT_PUMP_PIN = FALSE]

mc_setup(ee, ckpt, rtcUnix) ==
    mc_readEeprom(mc_initializePins(
        [Globals EXCEPT !.ee = ee, !.ckpt = ckpt,
                        !.dateTimeNow = rtcUnix,
                        !.epochAtStart = (rtcUnix - EPOCH_OFFSET) * 1000]))

\* lines 389-393
mc_loopRollover(m) ==
    IF rolloverDue(m)
    THEN mc_saveEeprom([mc_dayPassed(m) EXCEPT
                           !.statisticsCurrentDay = DayOfMonth(m.dateTimeNow)])
    ELSE m

mc_correctionDue(m) ==
    GT64(m.timeNow - m.lastHourStarted, ONE_HOUR) /\ ~m.pumpRunning

\* lines 395-402
mc_loopCorrection(m, myMillis, rtcUnix) ==
    IF mc_correctionDue(m)
    THEN LET correction == rtcUnix - m.dateTimeNow
             e == m.epochAtStart + correction * 1000
         IN  mc_saveEeprom([m EXCEPT !.epochAtStart = e,
                                     !.timeNow = e + myMillis,
                                     !.lastHourStarted = e + myMillis])
    ELSE m

mc_loopStages(m, myMillis, rtcUnix, in) ==
    Then(loopClock(m, myMillis), LAMBDA s1 :
    Then(mc_loopRollover(s1), LAMBDA s2 :
    Then(mc_loopCorrection(s2, myMillis, rtcUnix), LAMBDA s3 :
    Then(mc_readInput(s3, in), LAMBDA s5 :
    Then(mc_manageWaterPump(s5), LAMBDA s6 :
        [clock |-> s1, rolled |-> s2, corrected |-> s3, sensed |-> s3,
         input |-> s5, pump |-> s6, heater |-> s6, end |-> s6])))))

----------------------------------------------------------------------------
(* The environment: pins, clocks, power                                     *)

MaxCycles == 3

\* what the pins read in a cycle with nothing pressed, no motion, a dry
\* water-level switch; p is what the temperature probe answers
Quiet(p) ==
    [button1 |-> FALSE, modeChangeBtn |-> FALSE, forceRunBtn |-> FALSE,
     containerBtn |-> FALSE, resetBtn |-> FALSE, forceBtn |-> FALSE,
     motion |-> FALSE, water |-> FALSE, probe |-> p]

\* what the temperature probe may answer
ProbeReadings == {DEVICE_DISCONNECTED_C, TEMP_LIMIT - 1, TEMP_LIMIT + 1}

\* one button held or one sensor active, or the probe's answer changing
Stimuli(f, p) ==
    { [Quiet(p) EXCEPT !.containerBtn = TRUE], [Quiet(p) EXCEPT !.resetBtn = TRUE],
      [Quiet(p) EXCEPT !.forceBtn = TRUE], [Quiet(p) EXCEPT !.motion = TRUE],
      [Quiet(p) EXCEPT !.water = TRUE] }
    \cup (IF f = "ino"
          THEN { [Quiet(p) EXCEPT !.modeChangeBtn = TRUE],
                 [Quiet(p) EXCEPT !.forceRunBtn = TRUE],
                 [Quiet(p) EXCEPT !.button1 = TRUE] }
               \cup { Quiet(q) : q \in ProbeReadings \ {p} }
          ELSE {})

\* a lapse of time: real is what the RTC sees pass, mcu what millis() counts
Lapse(real, mcu) == [real |-> real, mcu |-> mcu]
Exact(d) == Lapse(d, d)

\* the time between two calls of loop() when a button is held
ShortLapses == {Exact(1)}

\* the time between two calls of loop() otherwise: a millisecond, a second,
\* the timer constants of the image, and two lapses over which millis() has
\* gained or lost a second against the RTC
Lapses(f) ==
    IF f = "ino"
    THEN { Exact(1), Exact(ONE_SECOND), Exact(HEATER_ON_TIME), Exact(HEATER_IDLE_TIME),
           Exact(FIFTEEN_MINUTES),
           Lapse(FIFTEEN_MINUTES - ONE_SECOND, FIFTEEN_MINUTES),
           Lapse(ONE_HOUR + ONE_SECOND, ONE_HOUR) }
    ELSE { Exact(1), Exact(ONE_SECOND), Exact(mc_PUMP_TIME), Exact(mc_IDLE_TIME),
           Exact(FIFTEEN_MINUTES),
           Lapse(ONE_HOUR - ONE_SECOND, ONE_HOUR),
           Lapse(ONE_HOUR + ONE_SECOND, ONE_HOUR) }

\* the RTC's unixtime() at true time t
RtcUnix(t) == t \div 1000 + EPOCH_OFFSET

\* true time at the first power-up, ms after EPOCH_OFFSET
InstallTime == ONE_HOUR

\* what an EEPROM never written by this image may hold
FreshEeproms == { [a \in EeAddrs |-> 255], [a \in EeAddrs |-> 0] }

Setup(f, ee, ckpt, unix) ==
    IF f = "ino" THEN setup(ee, ckpt, unix) ELSE mc_setup(ee, ckpt, unix)

Stages(f, mm, ms, unix, in) ==
    IF f = "ino" THEN loopStages(mm, ms, unix, in)
    ELSE mc_loopStages(mm, ms, unix, in)

\* a machine without its EEPROM image, as kept in obs
Snap(mm) == [mm EXCEPT !.ee = << >>]

None == << >>

\* obs.trig: the clock value at the latest trigger of each cooldown since the
\* last boot (None: not triggered, or zeroed by the reset command since)
NoTriggers == [wet |-> None, force |-> None, motion |-> None]

\* obs.prev: the cycle before the last one
NoCycle ==
    [loop |-> FALSE, forceEdge |-> FALSE, pumpAtEdge |-> FALSE,
     heaterAtEdge |-> FALSE, pumpRunning |-> FALSE, heaterRunning |-> FALSE]

\* before: the machine when power failed (Globals at the first power-up);
\* erased: the sentinel byte was not the check value;
\* days: the day marker after the first setup(), then every value a rollover
\* gave it, kept across a power cycle;
\* pumpSince: the clock value when the pump that is on, or went off in the last
\* cycle, was started;
\* offAt: the true time of the cycle in which stopPump(), stopHeat() last ran,
\* kept across a power cycle;
\* wetSince: the water-level switch read wet in the last cycle, or in a cycle
\* before it with no start of the pump and no reset of the latch at idle
\* expiry since, power cycles in between or not
BootObs(before, mm, erased) ==
    [kind |-> "boot", in |-> Quiet(TEMP_LIMIT + 1), lapse |-> 0,
     start |-> Snap(before), erased |-> erased,
     rolled |-> FALSE, corrected |-> FALSE, forceEdge |-> FALSE, resetEdge |-> FALSE,
     sensed |-> Snap(mm), inputWrote |-> FALSE,
     input |-> Snap(mm), pump |-> Snap(mm), heater |-> Snap(mm),
     trig |-> NoTriggers, prev |-> NoCycle,
     days |-> <<mm.statisticsCurrentDay>>, pumpSince |-> None,
     offAt |-> [pump |-> None, heater |-> None], wetSince |-> FALSE]

\* machine x, about to run manageWaterPump(), finds the pump off and its idle
\* time passed
IdleExpiryAt(f, x) ==
    /\ ~x.pumpRunning
    /\ IF f = "ino" THEN idleTimePassed(x) ELSE mc_idleTimePassed(x)

\* obs.wetSince as the next cycle finds it: what the switch read in the last
\* cycle if that cycle started the pump or reset the latch
WetCarried ==
    IF obs.kind = "loop" /\ IdleExpiryAt(fw, obs.input)
    THEN obs.in.water ELSE obs.wetSince

Init ==
    /\ fw \in {"ino", "main"}
    /\ rtc = InstallTime
    /\ millis = 0
    /\ cycles = 0
    /\ probe = TEMP_LIMIT + 1
    /\ \E ee \in FreshEeproms :
          \E b \in {Setup(fw, ee, None, RtcUnix(InstallTime))} :
              M = b /\ obs = BootObs(Globals, b, TRUE)

\* one call of loop(): lapse has passed since the previous one, the pins read in
LoopWith(lapse, in) ==
    /\ cycles < MaxCycles
    /\ \E st \in {Stages(fw, M, millis + lapse.mcu, RtcUnix(rtc + lapse.real), in)} :
        LET forceEdge == in.forceBtn /\ ~M.forceStopPressed
            resetEdge == in.resetBtn /\ ~M.resetButtonPressed
            latched   == st.input.maxWaterLevel \/ st.input.waterLevel
            now       == st.input.timeNow
        IN
        /\ cycles' = cycles + 1
        /\ millis' = millis + lapse.mcu
        /\ rtc' = rtc + lapse.real
        /\ probe' = in.probe
        /\ M' = st.end
        /\ obs' = [kind |-> "loop", in |-> in, lapse |-> lapse.mcu,
                   start |-> Snap(M), erased |-> FALSE,
                   rolled |-> rolloverDue(st.clock),
                   corrected |-> st.corrected.epochAtStart # st.rolled.epochAtStart,
                   forceEdge |-> forceEdge, resetEdge |-> resetEdge,
                   sensed |-> Snap(st.sensed),
                   inputWrote |-> st.input.ee # st.sensed.ee,
                   input |-> Snap(st.input), pump |-> Snap(st.pump),
                   heater |-> Snap(st.heater),
                   days |-> IF rolloverDue(st.clock)
                            THEN Append(obs.days, st.rolled.statisticsCurrentDay)
                            ELSE obs.days,
                   pumpSince |-> IF ~st.input.pumpRunning /\ st.pump.pumpRunning
                                 THEN <<st.pump.pumpStartedMs>>
                                 ELSE IF ~M.pumpRunning THEN None
                                 ELSE obs.pumpSince,
                   offAt |->
                     [pump |-> IF st.input.pumpRunning /\ ~st.pump.pumpRunning
                               THEN <<rtc + lapse.real>> ELSE obs.offAt.pump,
                      heater |-> IF st.pump.heaterRunning /\ ~st.heater.heaterRunning
                                 THEN <<rtc + lapse.real>> ELSE obs.offAt.heater],
                   wetSince |-> in.water \/ WetCarried,
                   trig |->
                     [wet |-> IF latched THEN <<now>>
                              ELSE IF resetEdge THEN None ELSE obs.trig.wet,
                      force |-> IF forceEdge THEN <<now>>
                                ELSE IF resetEdge THEN None ELSE obs.trig.force,
                      motion |-> IF in.motion THEN <<now>> ELSE obs.trig.motion],
                   prev |->
                     [loop |-> obs.kind = "loop", forceEdge |-> obs.forceEdge,
                      pumpAtEdge |-> obs.start.pumpRunning,
                      heaterAtEdge |-> obs.start.heaterRunning,
                      pumpRunning |-> M.pumpRunning,
                      heaterRunning |-> M.heaterRunning]]
        /\ UNCHANGED fw

\* loop() if it stopped cycling while the temperature sensor is in fault
Wait_halting ==
    ~M.tempSensorFail /\ \E lapse \in Lapses(fw) : LoopWith(lapse, Quiet(probe))

\* a cycle with nothing pressed
Wait == \E lapse \in Lapses(fw) : LoopWith(lapse, Quiet(probe))

\* a cycle right after the previous one, with a button held, a sensor active or
\* the temperature changed
Press == \E lapse \in ShortLapses, in \in Stimuli(fw, probe) : LoopWith(lapse, in)

\* power fails after a cycle (the last one included) and returns a second
\* later: setup() runs
PowerCycle ==
    /\ cycles <= MaxCycles
    /\ obs.kind = "loop"
    /\ cycles' = cycles + 1
    /\ millis' = 0
    /\ rtc' = rtc + ONE_SECOND
    /\ \E b \in {Setup(fw, M.ee, M.ckpt, RtcUnix(rtc + ONE_SECOND))} :
          /\ M' = b
          /\ obs' = [BootObs(M, b, M.ee[EEPROM_CONFIGURED] # EEPROM_CHECKVALUE)
                       EXCEPT !.lapse = obs.lapse,
                                  !.days = obs.days,
                                  !.offAt = obs.offAt,
                                  !.wetSince = WetCarried]
    /\ UNCHANGED <<fw, probe>>

\* where in loop() power may fail: after the clock is read, after the rollover,
\* after the correction, after readInput(), after manageWaterPump()
CrashPoints == {"clock", "rolled", "corrected", "input", "pump"}

\* power fails inside a cycle with nothing pressed, between two statements of
\* loop() (not inside saveEeprom()), and returns a second later: setup() runs
Brownout ==
    /\ cycles < MaxCycles
    /\ obs.kind = "loop"
    /\ \E lapse \in ShortLapses :
        \E st \in {Stages(fw, M, millis + lapse.mcu, RtcUnix(rtc + lapse.real),
                          Quiet(probe))} :
          \E at \in CrashPoints :
            \E b \in {Setup(fw, st[at].ee, st[at].ckpt,
                            RtcUnix(rtc + lapse.real + ONE_SECOND))} :
              /\ cycles' = cycles + 1
              /\ millis' = 0
              /\ rtc' = rtc + lapse.real + ONE_SECOND
              /\ M' = b
              /\ obs' = [BootObs(st[at], b, FALSE) EXCEPT
                            !.lapse = lapse.mcu,
                            !.offAt = obs.offAt,
                            !.wetSince = WetCarried /\ ~(at = "pump" /\
                                             IdleExpiryAt(fw, st.input))]
              /\ UNCHANGED <<fw, probe>>

Next == Wait \/ Press \/ PowerCycle \/ Brownout

Spec == Init /\ [][Next]_vars

----------------------------------------------------------------------------
(* The controller installed a quarter of an hour before midnight            *)

ONE_DAY == 24 * ONE_HOUR

\* true time of the first midnight (UTC, as DateTime counts) after EPOCH_OFFSET
Midnight ==
    ((ONE_DAY \div ONE_SECOND) - (EPOCH_OFFSET % (ONE_DAY \div ONE_SECOND))) * ONE_SECOND

DayInstallTime == Midnight - FIFTEEN_MINUTES - ONE_SECOND

\* the time between two calls of loop(): a millisecond, two minutes, a lapse
\* that ends half a second after midnight by millis() and half a second
\* before it by the RTC, an hour, a day
DayLapses ==
    { Exact(1), Exact(2 * ONE_MINUTE),
      Lapse(FIFTEEN_MINUTES + ONE_SECOND \div 2,
            FIFTEEN_MINUTES + ONE_SECOND + ONE_SECOND \div 2),
      Exact(ONE_HOUR), Exact(ONE_DAY) }

DayInit ==
    /\ fw \in {"ino", "main"}
    /\ rtc = DayInstallTime
    /\ millis = 0
    /\ cycles = 0
    /\ probe = TEMP_LIMIT + 1
    /\ \E ee \in FreshEeproms :
          \E b \in {Setup(fw, ee, None, RtcUnix(DayInstallTime))} :
              M = b /\ obs = BootObs(Globals, b, TRUE)

\* a cycle with nothing pressed
DayWait == \E lapse \in DayLapses : LoopWith(lapse, Quiet(probe))

DayNext == DayWait \/ Press \/ PowerCycle

DaySpec == DayInit /\ [][DayNext]_vars

----------------------------------------------------------------------------
(* src/main.cpp, lines 407-622: the second program of the file, which      *)
(* waters by soil moisture and keeps 24 one-byte slots in the EEPROM.       *)
(* timeNow is millis() itself and never below a stamp taken from it, so     *)
(* the unsigned long differences are computed without wrap.                 *)

m2_PUMP_PORTION == 10
m2_PUMP_WATER_SPEED == 133
m2_MAX_DRY_MOISTURE == 1
m2_EEPROM_CONFIGURED == 24
m2_EEPROM_LAST == 24
m2_PUMP_TIME == (100000 * m2_PUMP_PORTION) \div m2_PUMP_WATER_SPEED
m2_IDLE_TIME == m2_PUMP_TIME * 10

m2_Globals ==
    [ timeNow |-> 0, minMoisture |-> 101, maxMoisture |-> -1,
      pumpStatistics |-> Zeros, moisture1Percent |-> 0,
      button2Pressed |-> FALSE,
      pumpStartedMs |-> 0, idleStartedMs |-> 0, pumpRunning |-> FALSE,
      OUT_PUMP_PIN |-> FALSE,
      ee |-> [a \in 0 .. m2_EEPROM_CONFIGURED |-> 255] ]

m2_resetEEPROM(m) ==
    [m EXCEPT !.ee = [a \in 0 .. m2_EEPROM_CONFIGURED |->
                        IF a < m2_EEPROM_LAST THEN 0 ELSE EEPROM_CHECKVALUE]]

m2_initializeStatistics(m) ==
    Then(IF m.ee[m2_EEPROM_CONFIGURED] # EEPROM_CHECKVALUE
         THEN m2_resetEEPROM(m) ELSE m,
         LAMBDA r :
        [r EXCEPT !.pumpStatistics = [i \in 1 .. N_SLOTS |-> r.ee[i - 1]]])

m2_savePumpStatistics(m) ==
    [m EXCEPT !.ee = [a \in 0 .. m2_EEPROM_CONFIGURED |->
                        IF a < N_SLOTS THEN m.pumpStatistics[a + 1] ELSE m.ee[a]]]

\* in.b2: BUTTON2_PIN reads low; in.moist1: analogRead(IN_MOISTURE1_PIN)
m2_readInput(m, in) ==
    [(IF in.b2 # m.button2Pressed
      THEN m2_initializeStatistics(m2_resetEEPROM(m))
      ELSE m)
     EXCEPT !.button2Pressed = in.b2,
            !.moisture1Percent = 100 - (in.moist1 * 100) \div 1023]

m2_updateMoisture(m) ==
    [m EXCEPT !.minMoisture = IF m.moisture1Percent < @ THEN m.moisture1Percent ELSE @,
              !.maxMoisture = IF m.moisture1Percent > @ THEN m.moisture1Percent ELSE @]

m2_startPump(m) ==
    m2_updateMoisture([m EXCEPT !.pumpRunning = TRUE,
                                !.pumpStartedMs = m.timeNow,
                                !.idleStartedMs = 0,
                                !.OUT_PUMP_PIN = TRUE,
                                !.minMoisture = 101,
                                !.maxMoisture = -1])

m2_stopPump(m) ==
    [m2_savePumpStatistics(
        [m EXCEPT !.pumpRunning = FALSE,
                  !.OUT_PUMP_PIN = FALSE,
                  !.pumpStatistics[1] = (@ + m2_PUMP_PORTION) % W8])
     EXCEPT !.pumpStartedMs = 0, !.idleStartedMs = m.timeNow]

m2_manageWaterPump(m) ==
    Then(m2_updateMoisture(m), LAMBDA u :
        IF u.pumpRunning
        THEN IF u.timeNow - u.pumpStartedMs > m2_PUMP_TIME THEN m2_stopPump(u) ELSE u
        ELSE IF u.timeNow - u.idleStartedMs > m2_IDLE_TIME
                /\ u.maxMoisture < m2_MAX_DRY_MOISTURE
             THEN m2_startPump(u) ELSE u)

m2_setup(ee, in) ==
    m2_startPump(m2_readInput(m2_initializeStatistics([m2_Globals EXCEPT !.ee = ee]), in))

\* what the pins of the second program may read: the reset button up or
\* down, the soil dry (1023) or moist (512)
m2_Inputs == [b2 : BOOLEAN, moist1 : {1023, 512}]

m2_Lapses == {1, m2_PUMP_TIME + 1, m2_IDLE_TIME + 1}

m2_Init ==
    /\ fw = "main2"
    /\ rtc = 0 /\ millis = 0 /\ cycles = 0 /\ probe = 0
    /\ \E ee \in {[a \in 0 .. m2_EEPROM_CONFIGURED |-> 255],
                   [a \in 0 .. m2_EEPROM_CONFIGURED |-> 0]}, in \in m2_Inputs :
          \E b \in {m2_setup(ee, in)} :
              /\ M = b
              /\ obs = [kind |-> "boot", in |-> in, start |-> b, input |-> b]

\* one call of loop(), lines 617-622
m2_loop ==
    /\ cycles < MaxCycles
    /\ \E lapse \in m2_Lapses, in \in m2_Inputs :
          \E r \in {m2_readInput([M EXCEPT !.timeNow = millis + lapse], in)} :
              /\ millis' = millis + lapse
              /\ cycles' = cycles + 1
              /\ M' = m2_manageWaterPump(r)
              /\ obs' = [kind |-> "loop", in |-> in, start |-> M, input |-> r]
    /\ UNCHANGED <<fw, rtc, probe>>

m2_Spec == m2_Init /\ [][m2_loop]_vars

----------------------------------------------------------------------------
(* pulputin.ino: the clock of loop() over a wrap of millis()               *)

\* A time in milliseconds too large for one number: s seconds and ms
\* milliseconds, 0 <= ms < 1000.
w_Time(s, ms) == [s |-> s + (ms \div ONE_SECOND), ms |-> ms % ONE_SECOND]
w_Add(a, b) == w_Time(a.s + b.s, a.ms + b.ms)
w_Sub(a, b) == w_Time(a.s - b.s, a.ms - b.ms)
w_Ms(d) == w_Time(0, d)
w_Less(a, b) == a.s < b.s \/ (a.s = b.s /\ a.ms < b.ms)

\* 2^32 ms: millis() and millisAdd are unsigned long
w_WRAP_S == 4294967
w_WRAP_MS == 296
w_Wrap == [s |-> w_WRAP_S, ms |-> w_WRAP_MS]

\* lines 928-931: what myMillis() returns when up has passed since power-up
RECURSIVE w_myMillis(_)
w_myMillis(up) == IF w_Less(up, w_Wrap) THEN up ELSE w_myMillis(w_Sub(up, w_Wrap))

\* a > b for uint64_t a and unsigned long b (ms), a given as the difference
\* of two times
w_GT64(a, b) == w_Less(a, w_Ms(0)) \/ w_Less(w_Ms(b), a)

\* line 948, correction * 1000 in 32 bits as two's complement keeps it,
\* computed on 16-bit halves
w_WrappedTimes1000(c) ==
    LET ch == c \div 65536
        cl == c % 65536
        lo == (cl * 1000) % 65536
        hi == (ch * 1000 + ((cl * 1000) \div 65536)) % 65536
    IN  IF hi >= 32768 THEN (hi - 65536) * 65536 + lo ELSE hi * 65536 + lo

\* line 948: the values correction * 1000 may have; the product of an
\* int32_t and an int is a 32-bit signed number, and its overflow is undefined
w_Times1000(c) ==
    IF -2147483 <= c /\ c <= 2147483
    THEN {c * 1000}
    ELSE {w_WrappedTimes1000(c), IF c > 0 THEN 2147483647 ELSE -2147483647}

\* lines 369-371 and 916: the clock after setup() with the RTC at rtcUnix
w_setup(rtcUnix) ==
    [epochAtStart |-> w_Time(rtcUnix - EPOCH_OFFSET, 0),
     timeNow |-> w_Ms(0), dateTimeNow |-> rtcUnix,
     lastTimeClockCorrected |-> w_Ms(0)]

\* lines 935-936
w_loopClock(m, myMillis) ==
    LET t == w_Add(m.epochAtStart, myMillis)
    IN  [m EXCEPT !.timeNow = t, !.dateTimeNow = t.s + EPOCH_OFFSET]

\* lines 946-952 with the pump and the heater off; product is what
\* correction * 1000 gave
w_loopCorrection(m, myMillis, rtcUnix, product) ==
    IF w_GT64(w_Sub(m.timeNow, m.lastTimeClockCorrected), FIFTEEN_MINUTES)
    THEN LET e == w_Add(m.epochAtStart,
                        w_Time(product \div ONE_SECOND, product % ONE_SECOND))
         IN  [m EXCEPT !.epochAtStart = e,
                       !.timeNow = w_Add(e, myMillis),
                       !.lastTimeClockCorrected = w_Add(e, myMillis)]
    ELSE m

\* the time from one call of loop() to the next one looked at: a millisecond,
\* a quarter of an hour with millis() a second slow and a second fast, a day,
\* and what is left of the range of millis() after a day; over the two long
\* ones millis() keeps the RTC's pace, so that the calls in between find
\* nothing to correct
w_Lapses ==
    { [real |-> w_Ms(1), mcu |-> w_Ms(1)],
      [real |-> w_Ms(FIFTEEN_MINUTES + ONE_SECOND), mcu |-> w_Ms(FIFTEEN_MINUTES)],
      [real |-> w_Ms(FIFTEEN_MINUTES), mcu |-> w_Ms(FIFTEEN_MINUTES + ONE_SECOND)],
      [real |-> w_Ms(ONE_DAY), mcu |-> w_Ms(ONE_DAY)],
      [real |-> w_Sub(w_Wrap, w_Ms(ONE_DAY)), mcu |-> w_Sub(w_Wrap, w_Ms(ONE_DAY))] }

\* the RTC's unixtime() at true time t
w_RtcUnix(t) == t.s + EPOCH_OFFSET

w_Init ==
    /\ fw = "clock"
    /\ rtc = w_Ms(InstallTime)
    /\ millis = w_Ms(0)
    /\ cycles = 0
    /\ probe = TEMP_LIMIT + 1
    /\ M = w_setup(w_RtcUnix(w_Ms(InstallTime)))
    /\ obs = [kind |-> "boot", start |-> M, clock |-> M, corrected |-> FALSE]

\* one call of loop() with nothing pressed, the pump and the heater off
w_loop ==
    /\ cycles < MaxCycles
    /\ \E lapse \in w_Lapses :
        LET up   == w_Add(millis, lapse.mcu)
            real == w_Add(rtc, lapse.real)
            s1   == w_loopClock(M, w_myMillis(up))
        IN  \E product \in w_Times1000(w_RtcUnix(real) - s1.dateTimeNow) :
              \E s3 \in {w_loopCorrection(s1, w_myMillis(up), w_RtcUnix(real), product)} :
                /\ millis' = up
                /\ rtc' = real
                /\ cycles' = cycles + 1
                /\ M' = s3
                /\ obs' = [kind |-> "loop", start |-> M, clock |-> s1,
                           corrected |-> s3.lastTimeClockCorrected
                                            # s1.lastTimeClockCorrected]
    /\ UNCHANGED <<fw, probe>>

w_Spec == w_Init /\ [][w_loop]_vars

-----------------------------------------------------------------------------
\* Properties.  obs holds the last cycle: start is the machine when loop() was
\* entered, input the machine when manageWaterPump() was entered, pump the
\* machine when manageHeater() was entered, heater the machine when
\* manageHeater() returned; M is the machine when loop() returned.

Loop == obs.kind = "loop"
Ino == fw = "ino"
PumpTimeOf == IF Ino THEN PUMP_TIME ELSE mc_PUMP_TIME
IdleTimeOf == IF Ino THEN IDLE_TIME ELSE mc_IDLE_TIME
CantStartAt(x) == IF Ino THEN cantStart(x) ELSE mc_cantStart(x)

PumpStarted == ~obs.input.pumpRunning /\ obs.pump.pumpRunning
PumpStopped == obs.input.pumpRunning /\ ~obs.pump.pumpRunning
HeaterStarted == ~obs.pump.heaterRunning /\ obs.heater.heaterRunning
HeaterStopped == obs.pump.heaterRunning /\ ~obs.heater.heaterRunning

PumpOnFor == obs.input.timeNow - obs.input.pumpStartedMs
PumpIdleFor == obs.input.timeNow - obs.input.idleStartedMs
HeaterOnFor == obs.pump.timeNow - obs.pump.heaterStartedMs
HeaterIdleFor == obs.pump.timeNow - obs.pump.heaterIdleStartedMs
LatchWet == obs.input.maxWaterLevel \/ obs.input.waterLevel

\* C1: a call of loop() that changes epochAtStart is entered with the pump and
\* the heater both off, and a call entered with either of them on does not
\* leave timeNow smaller than it found it.
C1_CorrectionOnlyWhenIdle ==
    [][obs'.kind = "loop" =>
         /\ M'.epochAtStart # M.epochAtStart =>
                ~M.pumpRunning /\ ~M.heaterRunning
         /\ M.pumpRunning \/ M.heaterRunning => M'.timeNow >= M.timeNow]_vars

\* a correction of a second is applied in the first cycle after the heater,
\* which had held it back, went off
C1_Witness ==
    /\ Loop
    /\ obs.corrected
    /\ ~obs.start.heaterRunning
    /\ obs.start.heatStatistics[1] > 0
    /\ obs.start.timeNow - obs.start.lastTimeClockCorrected > FIFTEEN_MINUTES

\* C2: the pump goes from off to on in a cycle exactly when, on entry to
\* manageWaterPump(), the idle time has passed, the water-level latch is dry
\* and cantStart() is false; so it never starts in a cycle where cantStart()
\* holds.
C2_PumpStartGuard ==
    Loop =>
        (PumpStarted <=>
            /\ ~obs.input.pumpRunning
            /\ GT64(PumpIdleFor, IdleTimeOf)
            /\ ~LatchWet
            /\ ~CantStartAt(obs.input))

\* the pump of main.cpp has started
C2_Witness ==
    Loop /\ PumpStarted /\ ~CantStartAt(obs.input) /\ M.OUT_PUMP_PIN

\* C3 as stated: a ForceStop edge read while the pump or the heater is on
\* leaves that actuator off at the end of the same cycle or of the next one.
C3_Original ==
    Loop /\ obs.prev.loop /\ obs.prev.forceEdge =>
        /\ obs.prev.pumpAtEdge => ~obs.prev.pumpRunning \/ ~M.pumpRunning
        /\ obs.prev.heaterAtEdge => ~obs.prev.heaterRunning \/ ~M.heaterRunning

\* C3 amended: a ForceStop edge read while the pump is on leaves the pump off at
\* the end of the same cycle; the heater is not interrupted: if it is on and
\* its on-time has not passed, it is still on at the end of that cycle.
C3_ForceStopStopsPumpOnly ==
    Loop /\ obs.forceEdge =>
        /\ obs.start.pumpRunning => ~M.pumpRunning
        /\ obs.pump.heaterRunning /\ ~GT64(HeaterOnFor, HEATER_ON_TIME) =>
               M.heaterRunning

\* ForceStop has stopped the pump of main.cpp before its pump time passed
C3_Witness ==
    /\ Loop
    /\ obs.forceEdge
    /\ obs.start.pumpRunning
    /\ ~M.pumpRunning
    /\ ~GT64(PumpOnFor, PumpTimeOf)

\* C4 as stated, for the cycles since the last boot and the last reset command:
\* with T the clock value at the latest trigger of a cooldown, its predicate
\* is true exactly when timeNow - T is less than the window.
C4_Original ==
    Loop =>
        /\ obs.trig.wet # None =>
              (wetRecently(M) <=> M.timeNow - obs.trig.wet[1] < WET_TIME)
        /\ obs.trig.force # None =>
              (forceStoppedRecently(M) <=>
                   M.timeNow - obs.trig.force[1] < FORCE_STOP_TIME)
        /\ obs.trig.motion # None =>
              (motionStoppedRecently(M) <=>
                   M.timeNow - obs.trig.motion[1] < MOTION_STOP_TIME)

\* C5 as stated: the heater goes from off to on only in a cycle where its idle
\* time has passed, the temperature is below the limit and cantStart() is false.
C5_Original ==
    Loop /\ Ino /\ HeaterStarted =>
        /\ GT64(HeaterIdleFor, HEATER_IDLE_TIME)
        /\ obs.pump.temperature < TEMP_LIMIT
        /\ ~cantStart(obs.pump)

\* C5 amended: the heater goes from off to on in a cycle exactly when, on entry
\* to manageHeater(), its idle time has passed and the temperature is below
\* the limit; cantStart() is not consulted.
C5_HeaterStartGuard ==
    Loop /\ Ino =>
        (HeaterStarted <=>
            /\ ~obs.pump.heaterRunning
            /\ GT64(HeaterIdleFor, HEATER_IDLE_TIME)
            /\ obs.pump.temperature < TEMP_LIMIT)

\* the heater has started within an hour of a ForceStop
C5_Witness ==
    Loop /\ Ino /\ HeaterStarted /\ forceStoppedRecently(obs.pump) /\ M.OUT_HEATER_PIN

\* C6 as stated: an actuator that is on goes off in a cycle exactly when its
\* on-time has passed or cantStart() holds, the pump and the heater alike.
C6_Original ==
    Loop =>
        /\ PumpStopped <=>
              /\ obs.input.pumpRunning
              /\ GT64(PumpOnFor, PumpTimeOf) \/ CantStartAt(noteWet(obs.input))
        /\ Ino =>
              (HeaterStopped <=>
                  /\ obs.pump.heaterRunning
                  /\ GT64(HeaterOnFor, HEATER_ON_TIME) \/ cantStart(obs.pump))

\* C6 amended: the pump, when on, goes off in a cycle exactly when its pump
\* time has passed or cantStart() holds; the heater, when on, goes off exactly
\* when its on-time has passed, whatever cantStart() says.
C6_StopGuards ==
    Loop =>
        /\ PumpStopped <=>
              /\ obs.input.pumpRunning
              /\ GT64(PumpOnFor, PumpTimeOf) \/ CantStartAt(noteWet(obs.input))
        /\ Ino =>
              (HeaterStopped <=>
                  /\ obs.pump.heaterRunning
                  /\ GT64(HeaterOnFor, HEATER_ON_TIME))

\* the heater has gone off, its on-time passed, and its time is in slot 0
C6_Witness ==
    /\ Loop
    /\ Ino
    /\ HeaterStopped
    /\ cantStart(obs.pump)
    /\ M.heatStatistics[1] > obs.start.heatStatistics[1]

\* a cycle in which one of the transitions C7 lists took place
Transition ==
    \/ obs.start.pumpRunning # M.pumpRunning
    \/ obs.start.heaterRunning # M.heaterRunning
    \/ obs.rolled
    \/ obs.resetEdge
    \/ obs.in.containerBtn /\ ~obs.start.resetContainerPressed

\* C7 as stated, for pulputin.ino: at the end of a cycle with a start or stop
\* of the pump or the heater, a day rollover or a reset command, what
\* readEeprom() would load equals the persisted globals in memory.
C7_Original ==
    Loop /\ Ino /\ Transition => Persisted(readEeprom(M)) = Persisted(M)

\* the time for which an actuator had been on when power failed
LostPumpTime == obs.start.timeNow - obs.start.pumpStartedMs
LostHeaterTime == obs.start.timeNow - obs.start.heaterStartedMs

\* C8 as stated, for the period in progress: when power fails, the time for
\* which an actuator has been on without being recorded is no more than the
\* last cycle added to it.
C8_Original ==
    obs.kind = "boot" =>
        /\ obs.start.pumpRunning => LostPumpTime <= obs.lapse
        /\ obs.start.heaterRunning => LostHeaterTime <= obs.lapse

\* C8 amended, for pulputin.ino and a power failure between two cycles: setup()
\* restores the persisted globals as the last saveEeprom() before the failure
\* wrote them and leaves both actuators off; what memory held beyond that
\* checkpoint is lost, however many cycles it took to build up.
C8_RestoresLastCheckpoint ==
    obs.kind = "boot" /\ Ino /\ ~obs.erased =>
        /\ Persisted(M) = obs.start.ckpt
        /\ ~M.pumpRunning /\ ~M.heaterRunning
        /\ ~M.OUT_PUMP_PIN /\ ~M.OUT_HEATER_PIN

\* power failed with the heater on for longer than the last cycle, and the
\* statistics after setup() know nothing of that time
C8_Witness ==
    /\ obs.kind = "boot"
    /\ Ino
    /\ obs.start.heaterRunning
    /\ LostHeaterTime > obs.lapse
    /\ M.heatStatistics = obs.start.heatStatistics
    /\ M.heaterStartedMs # obs.start.heaterStartedMs

\* the machine without the EEPROM image and the history
Core(mm) == [mm EXCEPT !.ee = << >>, !.ckpt = << >>]

SaveThenRead(mm) ==
    IF Ino THEN readEeprom(saveEeprom(mm)) ELSE mc_readEeprom(mc_saveEeprom(mm))

\* C9 as stated: in every state saveEeprom() followed by readEeprom() leaves
\* the globals as they were.
C9_Original == Core(SaveThenRead(M)) = Core(M)

\* the sentinel byte and the statistics in the EEPROM image
SentinelSet(ee) == eeprom_read_byte(ee, EEPROM_CONFIGURED) = EEPROM_CHECKVALUE
StoredPumpZero(ee) ==
    /\ \A i \in 1 .. N_SLOTS :
          eeprom_read_word(ee, EEPROM_PUMP_STATISTICS + (i - 1) * 2) = 0
    /\ eeprom_read_word(ee, EEPROM_PUMP_TOTAL) = 0
StoredHeatZero(ee) ==
    \A i \in 1 .. N_SLOTS :
        eeprom_read_dword(ee, EEPROM_HEAT_STATISTICS + (i - 1) * 4) = 0

\* C10: after setup() has found the sentinel byte different from the check
\* value, every statistics slot and the total are zero, in memory and in the
\* EEPROM, and the sentinel byte holds the check value.
C10_ErasedLoadsZero ==
    obs.kind = "boot" /\ obs.erased =>
        /\ M.pumpStatistics = Zeros
        /\ M.pumpedTotal = 0
        /\ M.heatStatistics = Zeros
        /\ StoredPumpZero(M.ee)
        /\ Ino => StoredHeatZero(M.ee)
        /\ SentinelSet(M.ee)

\* setup() has run on an EEPROM of 0xFF bytes
C10_Witness ==
    /\ obs.kind = "boot"
    /\ obs.erased
    /\ M.ee[EEPROM_LAST] = 255
    /\ M.statisticsCurrentDay = DayOfMonth(M.dateTimeNow)

----------------------------------------------------------------------------
(* C11                                                                      *)

\* the load of the program that is running
Load(mm) == IF Ino THEN readEeprom(mm) ELSE mc_readEeprom(mm)

\* power is cut between two cycles and setup() runs on the EEPROM as it is
Rebooting == obs'.kind = "boot" /\ obs'.start = Snap(M)

\* C11: readEeprom() on a record whose sentinel matches writes nothing: the
\* EEPROM after the load is byte for byte the EEPROM before it, both when the
\* load is applied to the machine as it stands and when setup() runs it after
\* a power cycle.
C11_LoadWritesNothing ==
    [][SentinelSet(M.ee) =>
         /\ \A x \in {Load(M)} : x.ee = M.ee /\ x.ckpt = M.ckpt
         /\ Rebooting => M'.ee = M.ee]_vars

\* setup() has loaded a record whose sentinel matched, and the load replaced
\* globals that had moved on since the last save
C11_Witness ==
    /\ obs.kind = "boot"
    /\ ~obs.erased
    /\ SentinelSet(M.ee)
    /\ Ino
    /\ Persisted(obs.start) # Persisted(M)

----------------------------------------------------------------------------
(* C12                                                                      *)

\* the values the rollovers gave the day marker, oldest first
RolledTo == SubSeq(obs.days, 2, Len(obs.days))

\* C12: a change of calendar day triggers exactly one rollover per distinct
\* day value: no day value is the target of two rollovers (the runs here are
\* shorter than a month, so equal values are the same day).
C12_Original ==
    \A i, j \in DOMAIN RolledTo : i # j => RolledTo[i] # RolledTo[j]

----------------------------------------------------------------------------
(* C13                                                                      *)

\* the first loop() after a setup()
FirstLoop == obs.kind = "loop" /\ ~obs.prev.loop

\* the day the cycle compared with the marker (dateTimeNow is set once a cycle)
DayTested == DayOfMonth(obs.input.dateTimeNow)

\* the rollover days as they were when the cycle began
DaysBefore == IF obs.rolled THEN SubSeq(obs.days, 1, Len(obs.days) - 1) ELSE obs.days

\* C13: the rollover guard survives a reboot: after a power cycle on a record
\* whose sentinel matched, the marker loaded is the day of the last rollover,
\* and a first cycle on that same day does not shift the statistics again.
C13_GuardSurvivesReboot ==
    /\ obs.kind = "boot" /\ ~obs.erased
            => M.statisticsCurrentDay = obs.days[Len(obs.days)]
    /\ FirstLoop /\ DayTested = DaysBefore[Len(DaysBefore)]
            => /\ ~obs.rolled
               /\ ~obs.resetEdge =>
                     /\ obs.input.pumpStatistics = obs.start.pumpStatistics
                     /\ Ino => obs.input.heatStatistics = obs.start.heatStatistics

\* a rollover, then a power cycle, then a first cycle on the day of that
\* rollover, which left the statistics where they were
C13_Witness ==
    /\ FirstLoop
    /\ ~obs.resetEdge
    /\ Len(obs.days) > 1
    /\ DayTested = obs.days[Len(obs.days)]
    /\ ~obs.rolled

----------------------------------------------------------------------------
(* C14                                                                      *)

\* slots[i] of the source is new[i + 1] here
Shifted(new, old) ==
    /\ new[1] = 0
    /\ \A i \in 2 .. N_SLOTS : new[i] = old[i - 1]

\* the rollover of the program that is running
Rollover(mm) == IF Ino THEN dayPassed(mm) ELSE mc_dayPassed(mm)

\* C14: dayPassed() moves every slot of every buffer one place towards the
\* old end, clears slot 0, drops what was in slot 23 and leaves pumpedTotal
\* alone: so for dayPassed() applied to the machine as it stands, and so for
\* the buffers at the end of readInput() in a cycle that rolled over (and read
\* no reset command) against the buffers the cycle began with.
C14_RolloverShifts ==
    /\ Shifted(Rollover(M).pumpStatistics, M.pumpStatistics)
    /\ Ino => Shifted(Rollover(M).heatStatistics, M.heatStatistics)
    /\ Rollover(M).pumpedTotal = M.pumpedTotal
    /\ Loop /\ obs.rolled /\ ~obs.resetEdge
           => /\ Shifted(obs.input.pumpStatistics, obs.start.pumpStatistics)
              /\ Ino => Shifted(obs.input.heatStatistics, obs.start.heatStatistics)
              /\ ~obs.in.containerBtn => obs.input.pumpedTotal = obs.start.pumpedTotal

\* a rollover that moved a used slot 0 to slot 1
C14_Witness ==
    /\ Loop /\ obs.rolled /\ ~obs.resetEdge
    /\ \/ Ino /\ obs.start.heatStatistics[1] > 0
              /\ obs.input.heatStatistics[2] = obs.start.heatStatistics[1]
              /\ obs.input.heatStatistics[1] = 0
       \/ ~Ino /\ obs.start.pumpStatistics[1] > 0
               /\ obs.input.pumpStatistics[2] = obs.start.pumpStatistics[1]
               /\ obs.input.pumpStatistics[1] = 0
               /\ obs.input.pumpedTotal > 0

----------------------------------------------------------------------------
(* C15                                                                      *)

\* the conversion of the program that is running
MsToMl(ms) == IF Ino THEN msToMl(ms) ELSE mc_msToMl(ms)

\* what the stop of this cycle added to slot 0 (a uint16_t)
PumpDelta == (obs.pump.pumpStatistics[1] - obs.input.pumpStatistics[1]) % W16

\* how long OUT_PUMP_PIN was high in the period that ended in this cycle
ActiveDurationMs == obs.pump.timeNow - obs.pumpSince[1]

\* C15: the volume a stop of the pump adds to slot 0 is rate x the time the
\* output was asserted, within one rounding unit.
C15_Original ==
    Loop /\ PumpStopped /\ obs.pumpSince # None
        => /\ PumpDelta >= MsToMl(ActiveDurationMs) - 1
           /\ PumpDelta <= MsToMl(ActiveDurationMs) + 1

----------------------------------------------------------------------------
(* C16                                                                      *)

\* every slot but slot 0 is what it was
OlderSlotsSame(new, old) == \A i \in 2 .. N_SLOTS : new[i] = old[i]

\* what the stop of this cycle added to heatStatistics[0] and to pumpedTotal
HeatDelta == obs.heater.heatStatistics[1] - obs.pump.heatStatistics[1]
TotalDeltaAtPumpStop == (obs.pump.pumpedTotal - obs.input.pumpedTotal) % W16
TotalDeltaAtHeaterStop == (obs.heater.pumpedTotal - obs.pump.pumpedTotal) % W16

\* the stop of the pump: output low, one delta to slot 0 and to pumpedTotal,
\* the other slots as they were, idleStartedMs = timeNow
PumpStopEffects ==
    Loop /\ PumpStopped
        => /\ ~obs.pump.OUT_PUMP_PIN
           /\ PumpDelta = TotalDeltaAtPumpStop
           /\ OlderSlotsSame(obs.pump.pumpStatistics, obs.input.pumpStatistics)
           /\ obs.pump.idleStartedMs = obs.pump.timeNow

\* C16 as stated: every Active -> Idle transition, of the pump and of the
\* heater, de-asserts the output, adds one delta to slot 0 and to the lifetime
\* total, leaves the other slots alone and sets idleSince to now.
C16_Original ==
    /\ PumpStopEffects
    /\ Loop /\ HeaterStopped
           => /\ ~obs.heater.OUT_HEATER_PIN
              /\ HeatDelta = TotalDeltaAtHeaterStop
              /\ OlderSlotsSame(obs.heater.heatStatistics, obs.pump.heatStatistics)
              /\ obs.heater.heaterIdleStartedMs = obs.heater.timeNow

\* C16 (amended): the stop of the pump does all of that; the stop of the
\* heater de-asserts the output, adds timeNow - heaterStartedMs to
\* heatStatistics[0] alone (there is no lifetime total of heater time, and
\* pumpedTotal and pumpStatistics stay as they were) and sets
\* heaterIdleStartedMs to timeNow.
C16_StopEffects ==
    /\ PumpStopEffects
    /\ Loop /\ HeaterStopped
           => /\ ~obs.heater.OUT_HEATER_PIN
              /\ HeatDelta = obs.pump.timeNow - obs.pump.heaterStartedMs
              /\ OlderSlotsSame(obs.heater.heatStatistics, obs.pump.heatStatistics)
              /\ obs.heater.pumpedTotal = obs.pump.pumpedTotal
              /\ obs.heater.pumpStatistics = obs.pump.pumpStatistics
              /\ obs.heater.heaterIdleStartedMs = obs.heater.timeNow

\* a stop of the pump that added a volume to slot 0 and to the total
C16_Witness ==
    /\ Loop /\ PumpStopped
    /\ PumpDelta > 0
    /\ obs.pump.pumpedTotal = obs.input.pumpedTotal + PumpDelta
    /\ obs.pump.pumpStatistics[1] = obs.input.pumpStatistics[1] + PumpDelta

----------------------------------------------------------------------------
(* C17                                                                      *)

\* the longest on-time that msToMl still converts to PUMP_PORTION
LastPortionMs == IF Ino THEN mlToMs(PUMP_PORTION + 1) ELSE mc_mlToMs(PUMP_PORTION + 1)

\* the pump is stopped in this cycle because its on-duration has elapsed, and
\* pumpStartedMs is still the time of the start (no reset command in between)
StoppedByOnDuration ==
    /\ Loop /\ PumpStopped
    /\ obs.pumpSince = <<obs.input.pumpStartedMs>>
    /\ GT64(PumpOnFor, PumpTimeOf)

\* C17 as stated, and only for cycles that come within a second of the one
\* before: a pump stopped by the on-duration guard adds exactly PUMP_PORTION.
C17_Original ==
    StoppedByOnDuration /\ obs.lapse <= ONE_SECOND => PumpDelta = PUMP_PORTION

\* C17 (amended): a pump stopped by the on-duration guard adds
\* msToMl(timeNow - pumpStartedMs), never less than PUMP_PORTION: exactly
\* PUMP_PORTION when the stopping cycle finds an on-time of at most
\* mlToMs(PUMP_PORTION + 1), more when it finds a longer one.  The constants
\* of both programs put the first on-time past PUMP_TIME inside that range.
C17_PortionWhenPrompt ==
    /\ msToMl(PUMP_TIME + 1) = PUMP_PORTION
    /\ msToMl(mlToMs(PUMP_PORTION + 1)) = PUMP_PORTION
    /\ msToMl(mlToMs(PUMP_PORTION + 1) + 1) = PUMP_PORTION + 1
    /\ mc_msToMl(mc_PUMP_TIME + 1) = PUMP_PORTION
    /\ StoppedByOnDuration
           => /\ PumpDelta = MsToMl(PumpOnFor) % W16
              /\ PumpOnFor <= LastPortionMs => PumpDelta = PUMP_PORTION
              /\ PumpOnFor > LastPortionMs /\ MsToMl(PumpOnFor) < W16
                     => PumpDelta > PUMP_PORTION

\* a stop in the first millisecond past PUMP_TIME, which adds the portion
C17_Witness ==
    /\ StoppedByOnDuration
    /\ PumpOnFor = PumpTimeOf + 1
    /\ PumpDelta = PUMP_PORTION

----------------------------------------------------------------------------
(* C18                                                                      *)

\* the state machines' flags and timestamps, the cooldown timers, the
\* statistics and the other persisted globals
Bookkeeping(x) ==
    [persisted |-> Persisted(x),
     pumpRunning |-> x.pumpRunning, heaterRunning |-> x.heaterRunning,
     heaterIdleStartedMs |-> x.heaterIdleStartedMs,
     wasWet |-> x.wasWet, maxWaterLevel |-> x.maxWaterLevel,
     forceStopStartedMs |-> x.forceStopStartedMs,
     wasForceStopped |-> x.wasForceStopped,
     motionStopStartedMs |-> x.motionStopStartedMs,
     wasMotionStopped |-> x.wasMotionStopped]

\* what readInput() reads when only the ForceRun button may be down
ForceRunOnly(b) == [Quiet(probe) EXCEPT !.forceRunBtn = b]

\* readInput() of this cycle saw the ForceRun button change, and no other
\* button or sensor active
ForceRunEdge ==
    /\ Loop /\ Ino
    /\ obs.in.forceRunBtn # obs.start.forceRunPressed
    /\ obs.in = [Quiet(obs.in.probe) EXCEPT !.forceRunBtn = obs.in.forceRunBtn]

\* C18: neither edge of ForceRun changes the running flags, the start and
\* idle timestamps, the cooldown timers, the statistics or the persisted
\* record; after the release each output is what its running flag says.
\* So for the ForceRun handling applied to the machine as it stands, and so
\* for readInput() of every cycle that saw an edge.
C18_ForceRunBypassesBookkeeping ==
    /\ Ino => \A b \in BOOLEAN :
           LET after == inForceRun(M, ForceRunOnly(b))
           IN  /\ Bookkeeping(after) = Bookkeeping(M)
               /\ after.ee = M.ee /\ after.ckpt = M.ckpt
               /\ M.forceRunPressed /\ ~b
                      => /\ after.OUT_HEATER_PIN = after.heaterRunning
                         /\ after.OUT_PUMP_PIN = after.pumpRunning
    /\ ForceRunEdge
           => /\ Bookkeeping(obs.input) = Bookkeeping(obs.sensed)
              /\ obs.input.ckpt = obs.sensed.ckpt
              /\ ~obs.inputWrote
              /\ ~obs.in.forceRunBtn
                     => /\ obs.input.OUT_HEATER_PIN = obs.input.heaterRunning
                        /\ obs.input.OUT_PUMP_PIN = obs.input.pumpRunning
                        /\ M.OUT_HEATER_PIN = M.heaterRunning
                        /\ M.OUT_PUMP_PIN = M.pumpRunning

\* a release of ForceRun that took the heater output, forced high on an idle
\* heater by the press, back to low
C18_Witness ==
    /\ ForceRunEdge
    /\ ~obs.in.forceRunBtn
    /\ obs.start.OUT_HEATER_PIN /\ ~obs.start.heaterRunning
    /\ ~obs.input.OUT_HEATER_PIN /\ ~obs.input.heaterRunning

----------------------------------------------------------------------------
(* C19                                                                      *)

\* readInput() of this cycle saw the container-refill button go down
ContainerEdge == Loop /\ obs.in.containerBtn /\ ~obs.start.resetContainerPressed

\* readInput() of this cycle saw the reset button go down
ResetEdge == Loop /\ obs.resetEdge

\* every slot of every buffer and the lifetime total are 0
AllZero(x) ==
    /\ x.pumpStatistics = Zeros
    /\ Ino => x.heatStatistics = Zeros
    /\ x.pumpedTotal = 0

\* C19 as stated: after the container-refill edge and after the full-reset
\* edge all 24 slots and the lifetime total are 0.
C19_Original == ContainerEdge \/ ResetEdge => AllZero(obs.input)

\* C19 (amended): after the full-reset edge all 24 slots of every buffer and
\* the lifetime total are 0, in memory and in the record saved; after the
\* container-refill edge pumpedTotal is 0, in memory and in the record saved,
\* and every slot is what it was.
C19_ResetEffects ==
    /\ ResetEdge => AllZero(obs.input) /\ AllZero(obs.input.ckpt)
    /\ ContainerEdge
           => /\ obs.input.pumpedTotal = 0
              /\ obs.input.ckpt.pumpedTotal = 0
              /\ obs.input.pumpStatistics = obs.sensed.pumpStatistics
              /\ Ino => obs.input.heatStatistics = obs.sensed.heatStatistics

\* a full reset that cleared a used slot 0
C19_Witness ==
    /\ ResetEdge
    /\ \/ obs.sensed.pumpStatistics[1] > 0 /\ obs.sensed.pumpedTotal > 0
       \/ Ino /\ obs.sensed.heatStatistics[1] > 0
    /\ AllZero(obs.input)

----------------------------------------------------------------------------
(* C20                                                                      *)

\* C20: while tempSensorFail is set the temperature stored is above the set
\* point, and manageHeater() does not start the heater in a cycle that
\* reaches it with tempSensorFail set.
C20_FaultNeverStartsHeater ==
    /\ M.tempSensorFail => M.temperature > TEMP_LIMIT
    /\ Loop /\ obs.pump.tempSensorFail
           => obs.pump.temperature > TEMP_LIMIT /\ ~HeaterStarted

\* the probe answers DEVICE_DISCONNECTED_C, the reading is taken, and a heater
\* whose idle time has passed stays off
C20_Witness ==
    /\ Loop /\ Ino
    /\ obs.in.probe = DEVICE_DISCONNECTED_C
    /\ ~obs.start.tempSensorFail /\ obs.pump.tempSensorFail
    /\ ~obs.pump.heaterRunning
    /\ GT64(HeaterIdleFor, HEATER_IDLE_TIME)
    /\ ~HeaterStarted

----------------------------------------------------------------------------
(* C21                                                                      *)

PumpTimers(x) == <<x.pumpStartedMs, x.idleStartedMs>>
HeaterTimers(x) == <<x.heaterStartedMs, x.heaterIdleStartedMs>>
Timers(x) == <<PumpTimers(x), HeaterTimers(x)>>

\* manageWaterPump() found the pump off with its idle time passed and did not
\* start it: it restarts the idle period
IdleRestarted ==
    /\ ~obs.input.pumpRunning /\ ~obs.pump.pumpRunning
    /\ GT64(PumpIdleFor, IdleTimeOf)

\* C21 as stated: over a cycle the timers of an actuator change only if the
\* cycle started or stopped that actuator.
C21_Original ==
    Loop => /\ PumpTimers(M) # PumpTimers(obs.start) => PumpStarted \/ PumpStopped
            /\ HeaterTimers(M) # HeaterTimers(obs.start)
                   => HeaterStarted \/ HeaterStopped

\* C21 (amended): within a cycle the four timers are left alone by the clock
\* refresh, the rollover, the clock correction, the temperature reading and
\* manageAlarm(); readInput() changes them only on a reset edge (resetEEPROM()
\* and readEeprom()); manageWaterPump() changes pumpStartedMs only when it
\* starts the pump and idleStartedMs only when it stops the pump or restarts
\* an idle period that has run out; manageHeater() changes heaterStartedMs
\* only when it starts the heater and heaterIdleStartedMs only when it stops
\* it.
C21_TimerWrites ==
    Loop =>
      /\ Timers(obs.sensed) = Timers(obs.start)
      /\ Timers(obs.input) # Timers(obs.sensed) => obs.resetEdge
      /\ obs.pump.pumpStartedMs # obs.input.pumpStartedMs => PumpStarted
      /\ obs.pump.idleStartedMs # obs.input.idleStartedMs
             => PumpStopped \/ IdleRestarted
      /\ HeaterTimers(obs.pump) = HeaterTimers(obs.input)
      /\ obs.heater.heaterStartedMs # obs.pump.heaterStartedMs => HeaterStarted
      /\ obs.heater.heaterIdleStartedMs # obs.pump.heaterIdleStartedMs
             => HeaterStopped
      /\ PumpTimers(obs.heater) = PumpTimers(obs.pump)
      /\ Timers(M) = Timers(obs.heater)

\* an idle period restarted by manageWaterPump() with the pump left off
C21_Witness ==
    /\ Loop /\ IdleRestarted
    /\ obs.pump.idleStartedMs = obs.pump.timeNow
    /\ obs.input.idleStartedMs # obs.pump.timeNow
    /\ ~obs.resetEdge

----------------------------------------------------------------------------
(* C22                                                                      *)

\* the cooldowns of the program that is running, as manageWaterPump() asks
WetRecentlyAt(x) == x.wasWet /\ LT64(x.timeNow - x.lastWetMs, WET_TIME)
ForceStoppedRecentlyAt(x) ==
    x.wasForceStopped /\ LT64(x.timeNow - x.forceStopStartedMs, FORCE_STOP_TIME)
MotionStoppedRecentlyAt(x) ==
    x.wasMotionStopped /\ LT64(x.timeNow - x.motionStopStartedMs, MOTION_STOP_TIME)

\* now is at or after stamp and less than window after it
Within(now, stamp, window) == now >= stamp /\ now - stamp < window

\* C22: a cooldown that was in force when the cycle began, and whose window
\* has not run out, is in force when manageWaterPump() has evaluated
\* cantStart(), whatever readInput() read in between.
C22_Original ==
    Loop =>
      /\ WetRecentlyAt(obs.start)
         /\ Within(obs.pump.timeNow, obs.start.lastWetMs, WET_TIME)
             => WetRecentlyAt(obs.pump)
      /\ ForceStoppedRecentlyAt(obs.start)
         /\ Within(obs.pump.timeNow, obs.start.forceStopStartedMs, FORCE_STOP_TIME)
             => ForceStoppedRecentlyAt(obs.pump)
      /\ MotionStoppedRecentlyAt(obs.start)
         /\ Within(obs.pump.timeNow, obs.start.motionStopStartedMs, MOTION_STOP_TIME)
             => MotionStoppedRecentlyAt(obs.pump)

----------------------------------------------------------------------------
(* C23                                                                      *)

\* the two blocks only pulputin.ino has
SeasonalBlock == Ino /\ isWinter
TemperatureBlock(x) == Ino /\ x.temperature < TEMP_LIMIT

AnyBlock(x) ==
    \/ WetRecentlyAt(x)
    \/ ForceStoppedRecentlyAt(x)
    \/ MotionStoppedRecentlyAt(x)
    \/ SeasonalBlock
    \/ TemperatureBlock(x)

\* C23: cantStart() is true exactly when one of its components holds, on the
\* machine manageWaterPump() evaluated it on and on the machine the cycle
\* leaves; in pulputin.ino the seasonal block always holds and so does
\* cantStart().
C23_CantStartIsAnyBlock ==
    /\ CantStartAt(M) <=> AnyBlock(M)
    /\ Loop => (CantStartAt(obs.pump) <=> AnyBlock(obs.pump))
    /\ Ino => CantStartAt(M)

\* cantStart() of main.cpp true on the motion cooldown alone, one cycle after
\* a cycle in which it was false
C23_Witness ==
    /\ Loop /\ ~Ino
    /\ CantStartAt(obs.pump)
    /\ MotionStoppedRecentlyAt(obs.pump)
    /\ ~WetRecentlyAt(obs.pump) /\ ~ForceStoppedRecentlyAt(obs.pump)
    /\ ~CantStartAt(obs.start)

----------------------------------------------------------------------------
(* C24                                                                      *)

\* C24, for the reset button of the second program of main.cpp: a command
\* takes effect on the released-to-pressed edge only, so readInput() of a
\* cycle that reads the button up leaves the statistics and the EEPROM as
\* they were.
C24_Original ==
    obs.kind = "loop" /\ ~obs.in.b2
        => /\ obs.input.pumpStatistics = obs.start.pumpStatistics
           /\ obs.input.ee = obs.start.ee

----------------------------------------------------------------------------
(* C25                                                                      *)

\* the cycle wrote the stamp of the clock correction: lastTimeClockCorrected
\* in pulputin.ino, lastHourStarted in main.cpp
CorrectionStamp(x) == IF Ino THEN x.lastTimeClockCorrected ELSE x.lastHourStarted
CorrectingStep ==
    Loop /\ (obs.corrected \/ CorrectionStamp(obs.sensed) # CorrectionStamp(obs.start))

\* what the clock read, in seconds, when the correcting step compared it with
\* the RTC
EpochBefore == ((obs.start.epochAtStart + millis) \div ONE_SECOND) + EPOCH_OFFSET

\* C25: a correcting step moves epochAtStart by exactly the whole seconds the
\* RTC is ahead of the clock (behind it, when negative), and the clock it
\* leaves reads the RTC's second; a cycle that is not a correcting step
\* leaves epochAtStart alone.
C25_CorrectionLandsOnRtc ==
    /\ CorrectingStep =>
         /\ obs.sensed.epochAtStart - obs.start.epochAtStart
                = (RtcUnix(rtc) - EpochBefore) * ONE_SECOND
         /\ (obs.sensed.timeNow \div ONE_SECOND) + EPOCH_OFFSET = RtcUnix(rtc)
         /\ obs.sensed.timeNow = obs.sensed.epochAtStart + millis
         /\ M.epochAtStart = obs.sensed.epochAtStart
    /\ Loop /\ ~CorrectingStep => M.epochAtStart = obs.start.epochAtStart

\* a correction that set the clock back by a second
C25_Witness ==
    /\ CorrectingStep
    /\ obs.sensed.epochAtStart = obs.start.epochAtStart - ONE_SECOND

\* a correction that set the clock forward by a second
C25_WitnessForward ==
    /\ CorrectingStep
    /\ obs.sensed.epochAtStart = obs.start.epochAtStart + ONE_SECOND

\* C25, over a wrap of millis(): the clock a correcting step leaves reads the
\* RTC's second.
C25_Original ==
    fw = "clock" /\ obs.kind = "loop" /\ obs.corrected
        => M.timeNow.s + EPOCH_OFFSET = w_RtcUnix(rtc)

----------------------------------------------------------------------------
(* C26                                                                      *)

----------------------------------------------------------------------------
(* C27                                                                      *)

\* the first byte and the width of every field readEeprom() reads: lines
\* 479-498 of pulputin.ino, lines 165-181 of main.cpp
Fields(f) ==
    { <<EEPROM_PUMP_STATISTICS + 2 * i, 2>> : i \in 0 .. N_SLOTS - 1 }
    \cup { <<EEPROM_CONFIGURED, 1>>, <<EEPROM_PUMP_TOTAL, 2>>,
           <<EEPROM_PUMP_STARTED, 8>>, <<EEPROM_IDLE_STARTED, 8>>,
           <<EEPROM_LAST_WET, 8>>, <<EEPROM_STATS_CUR_DAY, 1>> }
    \cup (IF f = "ino"
          THEN { <<EEPROM_HEAT_STATISTICS + 4 * i, 4>> : i \in 0 .. N_SLOTS - 1 }
               \cup { <<EEPROM_DISPLAY_MODE, 1>>, <<EEPROM_HEATER_STARTED, 8>> }
          ELSE { <<mc_EEPROM_LAST_HOUR_STARTED, 8>> })

NoOverlap(f) ==
    \A a, b \in Fields(f) :
        a # b => a[1] + a[2] <= b[1] \/ b[1] + b[2] <= a[1]

\* what readEeprom() finds at the offsets it reads
ReadBack ==
    IF Ino THEN Persisted(readEeprom(M)) ELSE mc_Persisted(mc_readEeprom(M))

\* C27: no two fields overlap, and once saveEeprom() has run, what
\* readEeprom() reads at its offsets is what the last saveEeprom() was given
\* to write, field by field.
C27_Original ==
    /\ NoOverlap(fw)
    /\ M.ckpt # None => ReadBack = M.ckpt

----------------------------------------------------------------------------
(* C28                                                                      *)

\* C28: at the end of every cycle that read ForceRun released, the pump
\* output is high exactly when pumpRunning is true and the heater output
\* exactly when heaterRunning is true.
C28_OutputFollowsState ==
    Loop /\ ~obs.in.forceRunBtn
        => /\ M.OUT_PUMP_PIN = M.pumpRunning
           /\ M.OUT_HEATER_PIN = M.heaterRunning

\* a cycle with ForceRun released, entered with the heater on and its output
\* high, in which stopHeat() ran and the output went low
C28_Witness ==
    /\ Loop /\ Ino /\ ~obs.in.forceRunBtn
    /\ HeaterStopped
    /\ obs.start.OUT_HEATER_PIN /\ ~M.OUT_HEATER_PIN
    /\ ~obs.start.forceRunPressed

----------------------------------------------------------------------------
(* C29                                                                      *)

\* the event timestamps of machine x, none of them later than its clock
StampsInPast(x) ==
    /\ x.pumpStartedMs <= x.timeNow
    /\ x.idleStartedMs <= x.timeNow
    /\ x.lastWetMs <= x.timeNow
    /\ x.forceStopStartedMs <= x.timeNow
    /\ x.motionStopStartedMs <= x.timeNow
    /\ Ino => /\ x.heaterStartedMs <= x.timeNow
              /\ x.heaterIdleStartedMs <= x.timeNow
              /\ x.lastTimeClockCorrected <= x.timeNow

\* C29: where manageWaterPump() and manageHeater() evaluate the timer
\* predicates, no stored timestamp is later than timeNow.
C29_Original ==
    Loop => StampsInPast(obs.input) /\ StampsInPast(obs.pump)

----------------------------------------------------------------------------
(* C30                                                                      *)

\* C30: an actuator that starts in this cycle was stopped at least its idle
\* time ago, by the time that has truly passed, whatever happened in between.
C30_Original ==
    Loop =>
      /\ PumpStarted /\ obs.offAt.pump # None
            => rtc - obs.offAt.pump[1] >= IdleTimeOf
      /\ HeaterStarted /\ obs.offAt.heater # None
            => rtc - obs.offAt.heater[1] >= HEATER_IDLE_TIME

----------------------------------------------------------------------------
(* C31                                                                      *)

\* C31: an actuator that a cycle leaves on was started no longer ago than its
\* on-time, by the clock of the machine: the cycle that finds the on-time
\* passed stops it, so no Active period outlasts its on-time by more than a
\* cycle, a reset command read in between or not.
C31_MaxOnTime ==
    Loop =>
      /\ M.pumpRunning /\ obs.pumpSince # None
            => M.timeNow - obs.pumpSince[1] <= PumpTimeOf
      /\ M.heaterRunning
            => /\ M.timeNow - M.heaterStartedMs <= HEATER_ON_TIME
               /\ M.timeNow - M.heaterStartedMs >= 0

\* the reset command read while the pump is on, in a cycle that leaves it off
C31_Witness ==
    /\ Loop /\ obs.resetEdge
    /\ obs.start.pumpRunning
    /\ ~M.pumpRunning
    /\ obs.pumpSince # None

----------------------------------------------------------------------------
(* C32                                                                      *)

\* C32: a cycle whose readInput() read the water-level switch wet or the
\* motion sensor active leaves the pump off, whether it found it on or off.
C32_NoPumpWhenWetOrOccupied ==
    Loop /\ (obs.in.water \/ obs.in.motion) => ~M.pumpRunning

\* the pump, on when the cycle began and not yet on for its pump time,
\* stopped by the cycle that read the water-level switch wet
C32_Witness ==
    /\ Loop /\ obs.in.water
    /\ obs.start.pumpRunning /\ PumpStopped
    /\ ~GT64(PumpOnFor, PumpTimeOf)

----------------------------------------------------------------------------
(* C33                                                                      *)

\* the idle expiry of this cycle found the latch set: no start, the latch set
\* to what the switch reads, the idle time restarted
LatchedExpiry ==
    /\ ~PumpStarted
    /\ obs.pump.maxWaterLevel = obs.in.water
    /\ obs.pump.idleStartedMs = obs.pump.timeNow

\* C33 as stated: when the switch has read wet in some cycle since the last
\* start of the pump and the last reset of the latch at idle expiry, the idle
\* expiry does not start the pump but resets the latch and restarts the idle
\* time.
C33_Original ==
    Loop /\ IdleExpiryAt(fw, obs.input) /\ obs.wetSince => LatchedExpiry

\* C33 for the cycles since setup(): the latch is set from the first wet
\* reading since setup(), the last start of the pump and the last reset at
\* idle expiry; an idle expiry that finds it set does not start the pump but
\* resets it to the reading of the switch and restarts the idle time; and
\* manageWaterPump() clears a set latch at an idle expiry only.  setup()
\* leaves the latch clear.
C33_LatchSinceSetup ==
    /\ Loop =>
         /\ obs.in.water => LatchWet
         /\ IdleExpiryAt(fw, obs.input) /\ LatchWet => LatchedExpiry
         /\ ~IdleExpiryAt(fw, obs.input) =>
                /\ obs.pump.maxWaterLevel = LatchWet
                /\ LatchWet = (obs.start.maxWaterLevel \/ obs.in.water)
         /\ M.maxWaterLevel = obs.pump.maxWaterLevel
    /\ obs.kind = "boot" => ~M.maxWaterLevel

\* an idle expiry that found the latch set by an earlier cycle, with the
\* switch dry now: the pump stays off and the latch is cleared
C33_Witness ==
    /\ Loop /\ IdleExpiryAt(fw, obs.input)
    /\ obs.start.maxWaterLevel /\ ~obs.in.water
    /\ ~PumpStarted /\ ~M.maxWaterLevel
    /\ M.idleStartedMs = M.timeNow

----------------------------------------------------------------------------
(* C34                                                                      *)

\* C34: setup() leaves the pump off and its output low, and in the image with
\* a heater the heater off and its output low, whatever the EEPROM held.
C34_Original ==
    obs.kind = "boot"
        => /\ ~M.pumpRunning /\ ~M.OUT_PUMP_PIN
           /\ fw = "ino" => ~M.heaterRunning /\ ~M.OUT_HEATER_PIN

----------------------------------------------------------------------------
(* C35                                                                      *)

\* the machine setup() left, with the clock as the first statement of loop()
\* sets it
AtFirstClock == loopClock(M, 0)

\* setup() has loaded the stamp of a wet event, checkpointed by saveEeprom()
\* less than WET_TIME before now
WetEventLoaded ==
    /\ obs.kind = "boot"
    /\ M.ckpt # None
    /\ M.lastWetMs = M.ckpt.lastWetMs
    /\ M.lastWetMs > 0
    /\ Within(AtFirstClock.timeNow, M.lastWetMs, WET_TIME)

\* C35: after a power cycle that loaded the stamp of a wet event less than
\* WET_TIME old, wetRecently() is true.
C35_Original ==
    WetEventLoaded => WetRecentlyAt(AtFirstClock)

----------------------------------------------------------------------------
(* C36                                                                      *)

\* manageWaterPump() of pulputin.ino is entered with the pump off, the idle
\* time passed, the latch and the switch dry, no wet, force-stop or motion
\* cooldown in force and the temperature not below the limit
Favourable ==
    /\ Loop /\ Ino
    /\ IdleExpiryAt(fw, obs.input)
    /\ ~LatchWet
    /\ ~WetRecentlyAt(obs.input)
    /\ ~ForceStoppedRecentlyAt(obs.input)
    /\ ~MotionStoppedRecentlyAt(obs.input)
    /\ ~TemperatureBlock(obs.input)

\* C36: such a cycle makes manageWaterPump() call startPump(), and leaves a
\* state with pumpRunning true.
C36_Original ==
    Favourable => PumpStarted /\ M.pumpRunning

----------------------------------------------------------------------------
(* C37                                                                      *)

\* the output a ForceRun press writes high: the heater's when isWinter()
\* holds, the pump's otherwise
ForcedOutput(x) == IF isWinter THEN x.OUT_HEATER_PIN ELSE x.OUT_PUMP_PIN

\* C37: at the end of every cycle of pulputin.ino that read ForceRun held,
\* the forced output is high.
C37_Original ==
    Loop /\ Ino /\ obs.in.forceRunBtn => ForcedOutput(M)


(***************************************************************************)
(* C38: the 16-bit counters.                                               *)
(* A controller that has been watering for days: its EEPROM holds the      *)
(* record saveEeprom() of main.cpp wrote when pumpedTotal stood one        *)
(* portion short of CONTAINER_SIZE, or one portion short of 2^16.  Each    *)
(* portion adds msToMl(PUMP_TIME + 1) to pumpedTotal (main.cpp 309-318), a *)
(* ForceStop cuts a portion short, and nothing stops the pump at an empty  *)
(* container, so both totals are reached after some 280 and 655 portions.  *)
(***************************************************************************)
HalfPortion == PUMP_PORTION \div 2

WornTotals == { CONTAINER_SIZE - HalfPortion, W16 - HalfPortion }

WornEeproms ==
    { mc_saveEeprom([b EXCEPT !.pumpedTotal = v])
        : b \in { Setup("main", ee, None, RtcUnix(InstallTime)) : ee \in FreshEeproms },
          v \in WornTotals }

LongRunInit ==
    /\ fw = "main"
    /\ rtc = InstallTime
    /\ millis = 0
    /\ cycles = 0
    /\ probe = TEMP_LIMIT + 1
    /\ \E w \in WornEeproms :
          \E b \in {Setup(fw, w.ee, w.ckpt, RtcUnix(InstallTime))} :
              M = b /\ obs = BootObs(Globals, b, TRUE)

LongRunSpec == LongRunInit /\ [][Next]_vars

\* the delta stopPump() records: uint32_t pumped in pulputin.ino (line 810),
\* uint16_t pumped in main.cpp (line 313)
PumpedAtStop ==
    IF Ino THEN msToMl(obs.input.timeNow - obs.input.pumpStartedMs)
           ELSE mc_msToMl(obs.input.timeNow - obs.input.pumpStartedMs) % W16

\* C38: the 16-bit counters never wrap: at every stop of the pump
\* pumpStatistics[0] and pumpedTotal grow by exactly the delta recorded,
\* with no reduction modulo 2^16, and the remaining water
\* CONTAINER_SIZE - pumpedTotal, not negative before the stop, is not
\* negative after it.
C38_Original ==
    Loop /\ PumpStopped =>
        /\ obs.pump.pumpStatistics[1] = obs.input.pumpStatistics[1] + PumpedAtStop
        /\ obs.pump.pumpedTotal = obs.input.pumpedTotal + PumpedAtStop
        /\ CONTAINER_SIZE - obs.input.pumpedTotal >= 0
              => CONTAINER_SIZE - obs.pump.pumpedTotal >= 0

\* the two halves of C38 taken apart
C38_ExactSum ==
    Loop /\ PumpStopped =>
        obs.pump.pumpedTotal = obs.input.pumpedTotal + PumpedAtStop

C38_WaterLeft ==
    Loop /\ PumpStopped /\ CONTAINER_SIZE - obs.input.pumpedTotal >= 0
        => CONTAINER_SIZE - obs.pump.pumpedTotal >= 0

=============================================================================
